---- MODULE Spec2Model ----
(***************************************************************************)
(* Hydra: a terminal multiplexer for interactive CLI agent sessions.       *)
(*                                                                         *)
(* The module models                                                       *)
(*   - the state store and its reducer (state/session-store.ts),           *)
(*   - the input handler with its prefix key (services/input-handler.ts),  *)
(*   - the status tracker of the app controller (app.ts),                  *)
(*   - the pass-through filter and the chrome line of the screen renderer  *)
(*     (services/screen-renderer.ts).                                      *)
(*                                                                         *)
(* The prefix commands modelled are n, w, ], [ and the digits; q (quit)    *)
(* and g, s (the source-control dialogs) are not part of the input.        *)
(*                                                                         *)
(* Strings of the program are sequences of one-character strings; the     *)
(* byte 0x1b is the token "ESC", 0x02 is "^B" and 0x0d is "CR".            *)
(***************************************************************************)
EXTENDS Integers, Sequences, FiniteSets, TLC

VARIABLES
    state,        \* AppStore.state: [sessions, activeSessionId, mode, scrollOffset]
    prevState,    \* AppStore.dispatch: const prevState = this.state (of the last step)
    dispatched,   \* the actions the last step dispatched, in order
    emitted,      \* the number of "change" events the last step emitted
    threw,        \* whether the reducer threw in the last step
    observed,     \* the states the last step's "change" events handed to the
                  \* subscribers, in order
    sessionCounter, \* session-manager.ts: let sessionCounter = 0
    prefixActive,   \* InputHandler.prefixActive
    prefixTimeout,  \* InputHandler.prefixTimeout: ms left, or NoTimer (null)
    sessionCreatorValue, \* HydraApp.sessionCreatorValue
    appError,       \* HydraApp.error: whether an error message is stored
    lastRenderedSessionId, \* HydraApp.lastRenderedSessionId
    lastMode,       \* HydraApp.lastMode
    statuses,       \* HydraApp.sessionStatuses: id -> [status, timer, captured]
    pendingCreate,  \* the createSession calls that await their checkout:
                    \* <<[branch, cols, rows]>>
    pendingClose,   \* the ids whose closeSession awaits the checkout removal
    rend,           \* the ScreenRenderer's fields and what it wrote
    ptyAlive,       \* the ids whose PTY child has not exited
    ptyWrites,      \* the pty.write calls of the last step: <<[id, data]>>
    ev,             \* the handler the last step ran: [kind, chunk, id]
    sinceWorking,   \* id -> ms since a submit made it working with no PTY
                    \* data since, or NoTimer
    terms,          \* session.terminal: id -> [cols, rows, written, disposed]
    procs,          \* session.pty and the closure of createSession:
                    \* id -> [pendingChunks, flushTimer, delivered, kills,
                    \*        cols, rows, resizes]
    worktrees,      \* the ids of the sessions whose checkout directory exists
    shut,           \* the shutdown: [cleaning, handlers, stopped, cleanups,
                    \* restored, exited]
    passed,         \* what the last step's writePassthrough wrote to stdout
    buffer,         \* an emulator's cell buffer: [cols, lines, defaultColor]
    frame           \* what renderBuffer returned for it: [done, lines]

storeVars == <<state, prevState, dispatched, emitted, threw, observed,
              sessionCounter>>

appVars == <<prefixActive, prefixTimeout, sessionCreatorValue, appError,
             lastRenderedSessionId, lastMode, statuses, pendingCreate,
             pendingClose, rend, ptyAlive, ptyWrites,
             ev, sinceWorking, terms, procs, worktrees, shut, passed,
             buffer, frame>>

sysVars == <<terms, procs, worktrees, shut>>

vars == <<state, prevState, dispatched, emitted, threw, observed, sessionCounter,
          prefixActive, prefixTimeout, sessionCreatorValue, appError,
          lastRenderedSessionId, lastMode, statuses, pendingCreate,
          pendingClose, rend, ptyAlive, ptyWrites,
          ev, sinceWorking, terms, procs, worktrees, shut, passed,
          buffer, frame>>

(***************************************************************************)
(* Bounds of the model.                                                    *)
(***************************************************************************)
MaxSessions == 2      \* sessions created in one run (the id counter's range)
MaxScroll == 2        \* the largest scroll offset explored
MaxLines == 2         \* the largest line count of a scroll action
MaxList == 3          \* the longest session list a removal is applied to
MaxPendingClose == 2  \* the closes awaiting the checkout removal at a time
MaxOut == 6           \* PTY output is delivered while less was passed through
MaxDelivered == 4     \* the characters the PTYs deliver to the batching in a run
MaxCells == 4         \* the cells of a buffer that is rendered
MaxPainted == 2       \* the characters of PTY output while sessions are switched or timers run
MaxRows == 6          \* the tallest host terminal of the geometry
MaxArmed == 1         \* the chunks that arm a silence timer while sessions come and go
TermRows == 24        \* the rows of the host terminal
TermCols == 80        \* the columns of the host terminal

(***************************************************************************)
(* Values.                                                                 *)
(***************************************************************************)
Null == "null"                       \* activeSessionId: string | null
NoExit == -1                         \* exitCode: number | null
IdOf(n) == CASE n = 1 -> "s1" [] n = 2 -> "s2" [] n = 3 -> "s3" [] OTHER -> "s4"
\* The ids an action may name: those createSession can make, and one more.
SessionIds == {IdOf(n) : n \in 1..(MaxSessions + 1)}
Modes == {"normal", "creating-session", "confirming-close"}
ExitCodes == {0, 1}
Branches == {<<"a">>}
PtyExitCodes == {1}                  \* the exit codes of a PTY child

Min(a, b) == IF a < b THEN a ELSE b
Max(a, b) == IF a > b THEN a ELSE b

\* JavaScript's remainder: the sign of the result is the sign of the dividend.
JsRem(a, b) == IF a >= 0 THEN a % b ELSE 0 - ((0 - a) % b)

NewSession(id, branch) == [id |-> id, branch |-> branch, exitCode |-> NoExit]

Ids(sessions) == {sessions[i].id : i \in 1..Len(sessions)}

\* Array.prototype.findIndex, 0-based; -1 when no element has the id.
FindIndex(sessions, id) ==
    IF \E i \in 1..Len(sessions) : sessions[i].id = id
    THEN (CHOOSE i \in 1..Len(sessions) :
             /\ sessions[i].id = id
             /\ \A j \in 1..(i - 1) : sessions[j].id # id) - 1
    ELSE -1

\* Array.prototype.filter((s) => s.id !== id)
RECURSIVE FilterOut(_, _)
FilterOut(sessions, id) ==
    IF sessions = <<>> THEN <<>>
    ELSE IF Head(sessions).id = id THEN FilterOut(Tail(sessions), id)
    ELSE <<Head(sessions)>> \o FilterOut(Tail(sessions), id)

(***************************************************************************)
(* Actions of the store (AppAction).                                       *)
(***************************************************************************)
NoSession == [id |-> Null, branch |-> <<>>, exitCode |-> NoExit]

Act(type) ==
    [type |-> type, session |-> NoSession, sessionId |-> Null, index |-> 0,
     mode |-> "normal", exitCode |-> NoExit, lines |-> 0]

AddSession(s) == [Act("ADD_SESSION") EXCEPT !.session = s]
RemoveSession(id) == [Act("REMOVE_SESSION") EXCEPT !.sessionId = id]
SetActive(id) == [Act("SET_ACTIVE") EXCEPT !.sessionId = id]
NextTab == Act("NEXT_TAB")
PrevTab == Act("PREV_TAB")
JumpToTab(i) == [Act("JUMP_TO_TAB") EXCEPT !.index = i]
SetMode(m) == [Act("SET_MODE") EXCEPT !.mode = m]
SessionExited(id, code) ==
    [Act("SESSION_EXITED") EXCEPT !.sessionId = id, !.exitCode = code]
ScrollUp(n) == [Act("SCROLL_UP") EXCEPT !.lines = n]
ScrollDown(n) == [Act("SCROLL_DOWN") EXCEPT !.lines = n]
ResetScroll == Act("RESET_SCROLL")

initialState ==
    [sessions |-> <<>>, activeSessionId |-> Null, mode |-> "normal",
     scrollOffset |-> 0]

(***************************************************************************)
(* appReducer.  The result records the state returned, whether it is a     *)
(* new object (fresh) or the argument itself, and whether the reducer      *)
(* threw (a property read on undefined).                                   *)
(***************************************************************************)
Ret(st) == [st |-> st, fresh |-> TRUE, threw |-> FALSE]
Same(st) == [st |-> st, fresh |-> FALSE, threw |-> FALSE]
Thrown(st) == [st |-> st, fresh |-> FALSE, threw |-> TRUE]

ReduceAddSession(st, a) ==
    Ret([st EXCEPT !.sessions = Append(st.sessions, a.session),
                   !.activeSessionId = a.session.id,
                   !.mode = "normal",
                   !.scrollOffset = 0])

\* A removal by position: splice(findIndex(...), 1) removes the last session
\* when no session has the id.
ReduceRemoveSessionBySplice(st, a) ==
    LET oldIndex == FindIndex(st.sessions, a.sessionId)
        at == IF oldIndex < 0 THEN Len(st.sessions) ELSE oldIndex + 1
        remaining == [i \in 1..Max(0, Len(st.sessions) - 1) |->
                         IF i < at THEN st.sessions[i] ELSE st.sessions[i + 1]]
    IN  Ret([st EXCEPT
             !.sessions = remaining,
             !.activeSessionId =
                 IF Len(remaining) = 0 THEN Null
                 ELSE IF st.activeSessionId \in Ids(remaining)
                      THEN st.activeSessionId
                      ELSE remaining[Min(at, Len(remaining))].id,
             !.mode = "normal",
             !.scrollOffset = 0])

\* A removal that activates the session before the removed one.
ReduceRemoveSessionPrevious(st, a) ==
    LET remaining == FilterOut(st.sessions, a.sessionId)
        oldIndex == FindIndex(st.sessions, a.sessionId)
    IN  Ret([st EXCEPT
             !.sessions = remaining,
             !.activeSessionId =
                 IF st.activeSessionId = a.sessionId
                 THEN IF Len(remaining) > 0
                      THEN remaining[Max(1, oldIndex)].id
                      ELSE Null
                 ELSE st.activeSessionId,
             !.mode = "normal",
             !.scrollOffset = 0])

\* REMOVE_SESSION that keeps the mode.
ReduceRemoveSessionKeepsMode(st, a) ==
    LET remaining == FilterOut(st.sessions, a.sessionId)
        oldIndex == FindIndex(st.sessions, a.sessionId)
        pick == Min(oldIndex, Len(remaining) - 1)
    IN  IF st.activeSessionId = a.sessionId /\ Len(remaining) > 0 /\ pick < 0
        THEN Thrown(st)
        ELSE Ret([st EXCEPT
                 !.sessions = remaining,
                 !.activeSessionId =
                     IF st.activeSessionId = a.sessionId
                     THEN IF Len(remaining) > 0
                          THEN remaining[pick + 1].id
                          ELSE Null
                     ELSE st.activeSessionId,
                 !.scrollOffset = 0])

ReduceRemoveSession(st, a) ==
    LET remaining == FilterOut(st.sessions, a.sessionId)
        oldIndex == FindIndex(st.sessions, a.sessionId)
        pick == Min(oldIndex, Len(remaining) - 1)
    IN  IF st.activeSessionId = a.sessionId /\ Len(remaining) > 0 /\ pick < 0
        THEN Thrown(st)   \* remaining[-1]!.id
        ELSE Ret([st EXCEPT
                 !.sessions = remaining,
                 !.activeSessionId =
                     IF st.activeSessionId = a.sessionId
                     THEN IF Len(remaining) > 0
                          THEN remaining[pick + 1].id
                          ELSE Null
                     ELSE st.activeSessionId,
                 !.mode = "normal",
                 !.scrollOffset = 0])

ReduceSetActive(st, a) ==
    Ret([st EXCEPT !.activeSessionId = a.sessionId, !.scrollOffset = 0])

\* NEXT_TAB as in the store without a scroll offset: the offset is kept.
ReduceNextTabKeepsScroll(st, a) ==
    IF Len(st.sessions) = 0 THEN Same(st)
    ELSE LET idx == FindIndex(st.sessions, st.activeSessionId)
             next == JsRem(idx + 1, Len(st.sessions))
         IN  Ret([st EXCEPT !.activeSessionId = st.sessions[next + 1].id])

ReduceNextTab(st, a) ==
    IF Len(st.sessions) = 0 THEN Same(st)
    ELSE LET idx == FindIndex(st.sessions, st.activeSessionId)
             next == JsRem(idx + 1, Len(st.sessions))
         IN  Ret([st EXCEPT !.activeSessionId = st.sessions[next + 1].id,
                            !.scrollOffset = 0])

\* PREV_TAB that stops at the first tab.
ReducePrevTabNoWrap(st, a) ==
    IF Len(st.sessions) = 0 THEN Same(st)
    ELSE LET idx == FindIndex(st.sessions, st.activeSessionId)
             prev == Max(0, idx - 1)
         IN  Ret([st EXCEPT !.activeSessionId = st.sessions[prev + 1].id,
                            !.scrollOffset = 0])

ReducePrevTab(st, a) ==
    IF Len(st.sessions) = 0 THEN Same(st)
    ELSE LET idx == FindIndex(st.sessions, st.activeSessionId)
             prev == JsRem(idx - 1 + Len(st.sessions), Len(st.sessions))
         IN  Ret([st EXCEPT !.activeSessionId = st.sessions[prev + 1].id,
                            !.scrollOffset = 0])

\* JUMP_TO_TAB that returns a copy of the state for an index out of range.
ReduceJumpToTabCopies(st, a) ==
    IF a.index < 0 \/ a.index >= Len(st.sessions) THEN Ret(st)
    ELSE Ret([st EXCEPT !.activeSessionId = st.sessions[a.index + 1].id,
                        !.scrollOffset = 0])

ReduceJumpToTab(st, a) ==
    IF a.index < 0 \/ a.index >= Len(st.sessions) THEN Same(st)
    ELSE Ret([st EXCEPT !.activeSessionId = st.sessions[a.index + 1].id,
                        !.scrollOffset = 0])

ReduceSetMode(st, a) == Ret([st EXCEPT !.mode = a.mode])

\* SESSION_EXITED that takes the session out of the list.
ReduceSessionExitedDrops(st, a) ==
    Ret([st EXCEPT !.sessions = FilterOut(st.sessions, a.sessionId)])

ReduceSessionExited(st, a) ==
    Ret([st EXCEPT !.sessions =
            [i \in 1..Len(st.sessions) |->
                IF st.sessions[i].id = a.sessionId
                THEN [st.sessions[i] EXCEPT !.exitCode = a.exitCode]
                ELSE st.sessions[i]]])

ReduceScrollUp(st, a) ==
    Ret([st EXCEPT !.scrollOffset = st.scrollOffset + a.lines])

\* SCROLL_DOWN without the clamp at 0.
ReduceScrollDownUnclamped(st, a) ==
    Ret([st EXCEPT !.scrollOffset = st.scrollOffset - a.lines])

ReduceScrollDown(st, a) ==
    Ret([st EXCEPT !.scrollOffset = Max(0, st.scrollOffset - a.lines)])

ReduceResetScroll(st, a) == Ret([st EXCEPT !.scrollOffset = 0])

appReducer(st, a) ==
    CASE a.type = "ADD_SESSION" -> ReduceAddSession(st, a)
      [] a.type = "REMOVE_SESSION" -> ReduceRemoveSession(st, a)
      [] a.type = "SET_ACTIVE" -> ReduceSetActive(st, a)
      [] a.type = "NEXT_TAB" -> ReduceNextTab(st, a)
      [] a.type = "PREV_TAB" -> ReducePrevTab(st, a)
      [] a.type = "JUMP_TO_TAB" -> ReduceJumpToTab(st, a)
      [] a.type = "SET_MODE" -> ReduceSetMode(st, a)
      [] a.type = "SESSION_EXITED" -> ReduceSessionExited(st, a)
      [] a.type = "SCROLL_UP" -> ReduceScrollUp(st, a)
      [] a.type = "SCROLL_DOWN" -> ReduceScrollDown(st, a)
      [] a.type = "RESET_SCROLL" -> ReduceResetScroll(st, a)
      [] OTHER -> Same(st)

(***************************************************************************)
(* AppStore.dispatch: the state is replaced by the reducer's result and a  *)
(* "change" event is emitted iff the result is a distinct object.  A throw *)
(* of the reducer leaves the state as it was.                              *)
(***************************************************************************)
\* A dispatch that emits "change" whatever the reducer returned.
StoreDispatchAlways(st, a) ==
    LET r == appReducer(st, a)
    IN  [state |-> r.st, emit |-> TRUE, threw |-> r.threw, change |-> <<r.st>>]

StoreDispatch(st, a) ==
    LET r == appReducer(st, a)
    IN  [state |-> r.st, emit |-> r.fresh, threw |-> r.threw,
         change |-> IF r.fresh THEN <<r.st>> ELSE <<>>]

\* The state of the store after dispatch(a).
Apply(st, a) == StoreDispatch(st, a).state

\* One step of the store: dispatch(a).
Dispatch(a) ==
    LET r == StoreDispatch(state, a)
    IN  /\ state' = r.state
        /\ prevState' = state
        /\ dispatched' = <<a>>
        /\ emitted' = IF r.emit THEN 1 ELSE 0
        /\ threw' = r.threw
        /\ observed' = r.change

(***************************************************************************)
(* Program constants.                                                      *)
(***************************************************************************)
PREFIX_TIMEOUT_MS == 500
SILENCE_MS == 3000
CHROME_ROWS == 3

NoTimer == -1                        \* a timer handle that is null
\* Time advances in steps of the shortest timer of the program.
TickMs == PREFIX_TIMEOUT_MS

(***************************************************************************)
(* Characters.  A string is a sequence of characters; the control          *)
(* characters are the tokens below.                                        *)
(***************************************************************************)
ESC == "ESC"                         \* "\x1b"
CTRL_B == "^B"                       \* "\x02"
CR == "CR"                           \* "\r"
LF == "LF"                           \* "\n"
DEL == "DEL"                         \* "\x7f"
BS == "BS"                           \* "\b"
Dot == "*"                           \* the status dot, one character

DigitChars == <<"0", "1", "2", "3", "4", "5", "6", "7", "8", "9">>
IsDigit(c) == \E d \in 1..10 : DigitChars[d] = c
DigitValue(c) == (CHOOSE d \in 1..10 : DigitChars[d] = c) - 1

\* charCodeAt(0) < 32 for the control characters of the model.
ControlChars == {ESC, CTRL_B, CR, LF, BS}

\* String(n) for a number n >= 0.
RECURSIVE Digits(_)
Digits(n) ==
    IF n < 10 THEN <<DigitChars[n + 1]>>
    ELSE Digits(n \div 10) \o <<DigitChars[(n % 10) + 1]>>

\* parseInt(key, 10) for a key without leading blanks or sign: the value of
\* its leading digits; NaN (here -1) when it starts with no digit.
RECURSIVE LeadingValue(_, _)
LeadingValue(key, acc) ==
    IF key = <<>> \/ ~IsDigit(Head(key)) THEN acc
    ELSE LeadingValue(Tail(key), acc * 10 + DigitValue(Head(key)))

parseInt(key) ==
    IF key = <<>> \/ ~IsDigit(Head(key)) THEN -1 ELSE LeadingValue(key, 0)

\* String.prototype.trim for the blank " ".
RECURSIVE TrimStart(_)
TrimStart(s) ==
    IF s # <<>> /\ Head(s) = " " THEN TrimStart(Tail(s)) ELSE s

RECURSIVE TrimEnd(_)
TrimEnd(s) ==
    IF s # <<>> /\ s[Len(s)] = " " THEN TrimEnd(SubSeq(s, 1, Len(s) - 1)) ELSE s

Trim(s) == TrimEnd(TrimStart(s))

startsWithEsc(str) == str # <<>> /\ Head(str) = ESC

(***************************************************************************)
(* ANSI sequences (utils/ansi.ts).                                         *)
(***************************************************************************)
RECURSIVE JoinCodes(_)
JoinCodes(codes) ==
    IF Len(codes) = 1 THEN Digits(codes[1])
    ELSE Digits(Head(codes)) \o <<";">> \o JoinCodes(Tail(codes))

sgr(codes) == <<ESC, "[">> \o JoinCodes(codes) \o <<"m">>
RESET == sgr(<<0>>)
setScrollRegion(top, bottom) ==
    <<ESC, "[">> \o Digits(top) \o <<";">> \o Digits(bottom) \o <<"r">>
resetScrollRegion == <<ESC, "[", "r">>
SAVE_CURSOR == <<ESC, "7">>
RESTORE_CURSOR == <<ESC, "8">>

(***************************************************************************)
(* The filters of writePassthrough.  Match(re, s, i) is the length of the  *)
(* match of the regular expression re at position i of s, 0 if none.       *)
(***************************************************************************)
At(s, i) == IF i >= 1 /\ i <= Len(s) THEN s[i] ELSE "EOS"

HasAt(s, i, p) == \A k \in 1..Len(p) : At(s, i + k - 1) = p[k]

\* The first position from i on whose character is not in the class.
RECURSIVE SkipDigits(_, _, _)
SkipDigits(s, i, semi) ==
    IF IsDigit(At(s, i)) \/ (semi /\ At(s, i) = ";")
    THEN SkipDigits(s, i + 1, semi) ELSE i

\* /\x1b\[\d*;?\d*r/
MatchDecstbm(s, i) ==
    IF ~HasAt(s, i, <<ESC, "[">>) THEN 0
    ELSE LET j == SkipDigits(s, i + 2, FALSE)
             k == IF At(s, j) = ";" THEN j + 1 ELSE j
             l == SkipDigits(s, k, FALSE)
         IN  IF At(s, l) = "r" THEN l - i + 1 ELSE 0

\* /\x1b\[\?(?:1049|47|1047)[hl]/
MatchAltScreen(s, i) ==
    IF ~HasAt(s, i, <<ESC, "[", "?">>) THEN 0
    ELSE IF HasAt(s, i + 3, <<"1", "0", "4", "9">>) /\ At(s, i + 7) \in {"h", "l"}
         THEN 8
    ELSE IF HasAt(s, i + 3, <<"4", "7">>) /\ At(s, i + 5) \in {"h", "l"}
         THEN 6
    ELSE IF HasAt(s, i + 3, <<"1", "0", "4", "7">>) /\ At(s, i + 7) \in {"h", "l"}
         THEN 8
    ELSE 0

\* /\x1b\[>[0-9;]*u/
MatchKittyKbd(s, i) ==
    IF ~HasAt(s, i, <<ESC, "[", ">">>) THEN 0
    ELSE LET j == SkipDigits(s, i + 3, TRUE)
         IN  IF At(s, j) = "u" THEN j - i + 1 ELSE 0

\* /\x1b\[6n/
MatchDsr(s, i) == IF HasAt(s, i, <<ESC, "[", "6", "n">>) THEN 4 ELSE 0

\* /\x1b\[[>=]?c/
MatchDa(s, i) ==
    IF ~HasAt(s, i, <<ESC, "[">>) THEN 0
    ELSE IF At(s, i + 2) = "c" THEN 3
    ELSE IF At(s, i + 2) \in {">", "="} /\ At(s, i + 3) = "c" THEN 4
    ELSE 0

\* /\x1b\[\?1004[hl]/
MatchFocus(s, i) ==
    IF HasAt(s, i, <<ESC, "[", "?", "1", "0", "0", "4">>) /\ At(s, i + 7) \in {"h", "l"}
    THEN 8 ELSE 0

Match(re, s, i) ==
    CASE re = "DECSTBM_RE" -> MatchDecstbm(s, i)
      [] re = "ALT_SCREEN_RE" -> MatchAltScreen(s, i)
      [] re = "KITTY_KBD_RE" -> MatchKittyKbd(s, i)
      [] re = "DSR_RE" -> MatchDsr(s, i)
      [] re = "DA_RE" -> MatchDa(s, i)
      [] re = "FOCUS_REPORTING_RE" -> MatchFocus(s, i)
      [] OTHER -> 0

\* String.prototype.replace(re, rep) with a global regular expression: the
\* string is scanned once from the left, each match is replaced and the scan
\* resumes after it.
RECURSIVE ReplaceFrom(_, _, _, _)
ReplaceFrom(s, i, re, rep) ==
    IF i > Len(s) THEN <<>>
    ELSE LET n == Match(re, s, i)
         IN  IF n > 0 THEN rep \o ReplaceFrom(s, i + n, re, rep)
             ELSE <<s[i]>> \o ReplaceFrom(s, i + 1, re, rep)

replace(s, re, rep) == ReplaceFrom(s, 1, re, rep)

\* The string writePassthrough writes for the chunk data.
Safe(data, viewportRows) ==
    replace(replace(replace(replace(replace(replace(data,
        "DECSTBM_RE", setScrollRegion(1, viewportRows)),
        "ALT_SCREEN_RE", <<>>),
        "KITTY_KBD_RE", <<>>),
        "DSR_RE", <<>>),
        "DA_RE", <<>>),
        "FOCUS_REPORTING_RE", <<>>)

(***************************************************************************)
(* ScreenRenderer.  The record r holds its fields; chrome is the last      *)
(* chrome line it drew (the state, statuses and width formatChromeLine     *)
(* read) and out is what writePassthrough wrote to process.stdout.         *)
(* viewport is what the rows of the viewport were last painted with (a     *)
(* session's emulator, "placeholder", "modal", or "none" after the screen  *)
(* was cleared), and tty is what process.stdout received from the last     *)
(* scroll-region sequence of the renderer on, the cursor movements and the *)
(* text that the renderer wrote after that sequence left out.              *)
(***************************************************************************)
EmptyMap == [id \in {} |-> "idle"]

NoChrome ==
    [drawn |-> FALSE, state |-> initialState, statuses |-> EmptyMap, cols |-> 0]

RendNew ==
    [totalRows |-> 0, totalCols |-> 0, viewportRows |-> 0,
     known |-> FALSE, lastKnownState |-> initialState,
     isModalActive |-> FALSE, chromeNeedsRedraw |-> FALSE,
     sessionStatuses |-> EmptyMap, chrome |-> NoChrome, out |-> <<>>,
     viewport |-> "none", tty |-> <<>>]

initialize(r, rows, cols) ==
    [r EXCEPT !.totalRows = rows, !.totalCols = cols,
              !.viewportRows = Max(1, rows - CHROME_ROWS),
              !.viewport = "none",
              !.tty = setScrollRegion(1, Max(1, rows - CHROME_ROWS))]

\* A resize that leaves two rows to the chrome.
rendererResizeTwoRows(r, rows, cols) ==
    [r EXCEPT !.totalRows = rows, !.totalCols = cols,
              !.viewportRows = Max(1, rows - 2),
              !.tty = setScrollRegion(1, Max(1, rows - 2)),
              !.chromeNeedsRedraw = TRUE]

rendererResize(r, rows, cols) ==
    [r EXCEPT !.totalRows = rows, !.totalCols = cols,
              !.viewportRows = Max(1, rows - CHROME_ROWS),
              !.tty = setScrollRegion(1, Max(1, rows - CHROME_ROWS)),
              !.chromeNeedsRedraw = TRUE]

setSessionStatuses(r, sts) ==
    [r EXCEPT !.sessionStatuses = [id \in DOMAIN sts |-> sts[id].status]]

updateState(r, st) ==
    LET prevActiveId == IF r.known THEN r.lastKnownState.activeSessionId ELSE Null
    IN  [r EXCEPT !.known = TRUE, !.lastKnownState = st,
                  !.chromeNeedsRedraw = @ \/ st.activeSessionId # prevActiveId]

drawChrome(r) ==
    IF ~r.known THEN [r EXCEPT !.chromeNeedsRedraw = FALSE]
    ELSE [r EXCEPT !.chromeNeedsRedraw = FALSE,
                   !.chrome = [drawn |-> TRUE, state |-> r.lastKnownState,
                               statuses |-> r.sessionStatuses,
                               cols |-> r.totalCols],
                   !.tty = setScrollRegion(1, r.viewportRows)]

\* repaintViewport(session): the rows of the viewport are written from the
\* emulator of the session id between a reset and a set of the scroll region.
repaintViewport(r, id) ==
    [r EXCEPT !.viewport = id, !.tty = setScrollRegion(1, r.viewportRows)]

renderPlaceholder(r) ==
    [r EXCEPT !.viewport = "placeholder", !.tty = setScrollRegion(1, r.viewportRows)]

requestChromeRedraw(r) ==
    IF r.isModalActive THEN [r EXCEPT !.chromeNeedsRedraw = TRUE]
    ELSE drawChrome([r EXCEPT !.chromeNeedsRedraw = TRUE])

enterModal(r, st) ==
    LET r1 == updateState([r EXCEPT !.isModalActive = TRUE], st)
    IN  drawChrome([r1 EXCEPT !.viewport = "modal",
                              !.tty = setScrollRegion(1, r.viewportRows)])

\* An exit of the modal that leaves the flag of the modal set.
exitModalKeepsFlag(r, id) ==
    drawChrome(IF id # Null THEN repaintViewport(r, id) ELSE renderPlaceholder(r))

\* exitModal(session); id is Null for no session.
exitModal(r, id) ==
    LET r1 == [r EXCEPT !.isModalActive = FALSE]
    IN  drawChrome(IF id # Null THEN repaintViewport(r1, id) ELSE renderPlaceholder(r1))

\* A session switch that redraws the chrome and leaves the viewport as it is.
handleSessionSwitchChromeOnly(r, id, st) == drawChrome(updateState(r, st))

handleSessionSwitch(r, id, st) == drawChrome(repaintViewport(updateState(r, st), id))

writePassthrough(r, data) ==
    IF r.isModalActive THEN r
    ELSE LET r1 == IF r.chromeNeedsRedraw THEN drawChrome(r) ELSE r
         IN  [r1 EXCEPT !.out = @ \o Safe(data, r.viewportRows),
                        !.tty = @ \o Safe(data, r.viewportRows)]

\* /\x1b\[[0-9;]*m/
MatchSgr(s, i) ==
    IF ~HasAt(s, i, <<ESC, "[">>) THEN 0
    ELSE LET j == SkipDigits(s, i + 2, TRUE)
         IN  IF At(s, j) = "m" THEN j - i + 1 ELSE 0

\* str.replace(/\x1b\[[0-9;]*m/g, "").length: the characters of str outside
\* every match (a match holds no ESC but its first character, so no two
\* matches overlap and every match is one the scan replaces).
visibleLength(str) ==
    Cardinality({i \in 1..Len(str) :
        ~\E j \in 1..i : MatchSgr(str, j) > 0 /\ i < j + MatchSgr(str, j)})

rightHelp ==
    <<"^", "B", ",", "G", ":", "g", "i", "t", " ", " ",
      "^", "B", ",", "N", ":", "n", "e", "w", " ", " ",
      "^", "B", ",", "W", ":", "c", "l", "o", "s", "e", " ", " ",
      "^", "B", ",", "[", "/", "]", ":", "t", "a", "b", "s", " ", " ",
      "^", "B", ",", "Q", ":", "q", "u", "i", "t", " ">>

Spaces(n) == [i \in 1..n |-> " "]

ModeTag(mode) ==
    CASE mode = "creating-session" ->
           sgr(<<33>>) \o <<"[", "C", "R", "E", "A", "T", "E", "]", " ">> \o RESET
      [] mode = "confirming-close" ->
           sgr(<<33>>) \o <<"[", "C", "L", "O", "S", "E", "?", "]", " ">> \o RESET
      [] OTHER -> <<>>

\* The tabs from the i-th session (1-based) on.
RECURSIVE Tabs(_, _, _)
Tabs(st, sts, i) ==
    IF i > Len(st.sessions) THEN <<>>
    ELSE LET session == st.sessions[i]
             isActive == session.id = st.activeSessionId
             hasExited == session.exitCode # NoExit
             status == IF session.id \in DOMAIN sts THEN sts[session.id] ELSE "idle"
             dotColor == IF hasExited \/ status = "waiting" THEN sgr(<<31>>)
                         ELSE IF status = "working" THEN sgr(<<32>>)
                         ELSE sgr(<<90>>)
             dot == dotColor \o <<Dot>> \o RESET
             label == <<" ">> \o Digits(i) \o <<":">> \o session.branch \o <<" ">>
             labelStyle == IF hasExited THEN sgr(<<31>>)
                           ELSE IF isActive THEN sgr(<<1, 4, 37>>)
                           ELSE sgr(<<90>>)
         IN  <<" ">> \o dot \o labelStyle \o label \o RESET
             \o (IF i < Len(st.sessions) THEN sgr(<<90>>) \o <<"|">> \o RESET
                 ELSE <<>>)
             \o Tabs(st, sts, i + 1)

ExitTag(st) ==
    LET k == FindIndex(st.sessions, st.activeSessionId)
    IN  IF k >= 0 /\ st.sessions[k + 1].exitCode # NoExit
        THEN sgr(<<31>>) \o <<" ", "e", "x", "i", "t", "e", "d", "(">>
             \o Digits(st.sessions[k + 1].exitCode) \o <<")">> \o RESET
        ELSE <<>>

formatChromeLine(st, sts, totalCols) ==
    LET leftStr ==
            sgr(<<1, 32>>) \o <<" ", "h", "y", "d", "r", "a", " ">> \o RESET
            \o sgr(<<90>>) \o <<"|", " ">> \o RESET
            \o ModeTag(st.mode)
            \o (IF Len(st.sessions) = 0
                THEN sgr(<<90>>)
                     \o <<"n", "o", " ", "s", "e", "s", "s", "i", "o", "n", "s">>
                     \o RESET
                ELSE Tabs(st, sts, 1))
            \o ExitTag(st)
        rightStr == sgr(<<90>>) \o rightHelp \o RESET
        leftLen == visibleLength(leftStr)
        rightLen == Len(rightHelp)
        gap == Max(1, totalCols - leftLen - rightLen)
    IN  leftStr \o Spaces(gap) \o rightStr

\* The chrome line of the last drawChrome.
ChromeLine(r) ==
    formatChromeLine(r.chrome.state, r.chrome.statuses, r.chrome.cols)

cursorTo(row, col) ==
    <<ESC, "[">> \o Digits(row) \o <<";">> \o Digits(col) \o <<"H">>

clearLine == <<ESC, "[", "2", "K">>

\* The rows drawChrome writes: topBorderRow, chromeRow, bottomBorderRow.
ChromeRows(r) == <<r.totalRows - 2, r.totalRows - 1, r.totalRows>>

\* The string the last drawChrome handed to process.stdout.write; "-" stands
\* for the box-drawing character of the borders.
ChromeWrite(r) ==
    LET border == sgr(<<90>>) \o [i \in 1..r.chrome.cols |-> "-"] \o RESET
    IN  SAVE_CURSOR \o resetScrollRegion
        \o cursorTo(ChromeRows(r)[1], 1) \o clearLine \o border
        \o cursorTo(ChromeRows(r)[2], 1) \o clearLine \o ChromeLine(r)
        \o cursorTo(ChromeRows(r)[3], 1) \o clearLine \o border
        \o setScrollRegion(1, r.viewportRows) \o RESTORE_CURSOR

(***************************************************************************)
(* The buffer renderer (services/buffer-renderer.ts).  A cell of the       *)
(* emulator holds its colours as xterm keeps them (the kind default,       *)
(* palette or rgb and the value), its flags, its characters and its width  *)
(* (0 for the continuation of a wide character).  d is what getFgColor     *)
(* and getBgColor return for a default colour.                             *)
(***************************************************************************)
Flags == {"bold", "dim", "italic", "underline", "inverse", "strikethrough"}

Colour(kind, value) == [kind |-> kind, value |-> value]

Attrs(fg, bg, flags) == [fg |-> fg, bg |-> bg, flags |-> flags]

BufferCell(attrs, chars, width) == [attrs |-> attrs, chars |-> chars, width |-> width]

\* isFgDefault() ? 0 : isFgPalette() ? (getFgColor() < 16 ? 1 : 2) : 3
colorMode(c) ==
    IF c.kind = "default" THEN 0
    ELSE IF c.kind = "palette" THEN (IF c.value < 16 THEN 1 ELSE 2)
    ELSE 3

getColor(c, d) == IF c.kind = "default" THEN d ELSE c.value

getCellStyle(cell, d) ==
    [fgMode |-> colorMode(cell.attrs.fg), fgColor |-> getColor(cell.attrs.fg, d),
     bgMode |-> colorMode(cell.attrs.bg), bgColor |-> getColor(cell.attrs.bg, d),
     bold |-> "bold" \in cell.attrs.flags,
     italic |-> "italic" \in cell.attrs.flags,
     underline |-> "underline" \in cell.attrs.flags,
     dim |-> "dim" \in cell.attrs.flags,
     inverse |-> "inverse" \in cell.attrs.flags,
     strikethrough |-> "strikethrough" \in cell.attrs.flags]

stylesEqual(a, b) ==
    /\ a.fgMode = b.fgMode
    /\ a.fgColor = b.fgColor
    /\ a.bgMode = b.bgMode
    /\ a.bgColor = b.bgColor
    /\ a.bold = b.bold
    /\ a.italic = b.italic
    /\ a.underline = b.underline
    /\ a.dim = b.dim
    /\ a.inverse = b.inverse
    /\ a.strikethrough = b.strikethrough

\* fgColorParams and bgColorParams (utils/ansi.ts); base is 30 or 40.
\* color & 7 is color % 8, and (color >> n) & 0xff is (color \div 2^n) % 256.
colorParams(base, mode, color) ==
    CASE mode = 0 -> <<>>
      [] mode = 1 -> IF color < 8 THEN <<base + color>> ELSE <<base + 60 + (color % 8)>>
      [] mode = 2 -> <<base + 8, 5, color>>
      [] mode = 3 -> <<base + 8, 2, (color \div 65536) % 256, (color \div 256) % 256,
                       color % 256>>
      [] OTHER -> <<>>

fgColorParams(mode, color) == colorParams(30, mode, color)

bgColorParams(mode, color) == colorParams(40, mode, color)

\* The parameters buildSGR pushes for the flags and the colours.
styleParams(style) ==
    (IF style.bold THEN <<1>> ELSE <<>>)
    \o (IF style.dim THEN <<2>> ELSE <<>>)
    \o (IF style.italic THEN <<3>> ELSE <<>>)
    \o (IF style.underline THEN <<4>> ELSE <<>>)
    \o (IF style.inverse THEN <<7>> ELSE <<>>)
    \o (IF style.strikethrough THEN <<9>> ELSE <<>>)
    \o fgColorParams(style.fgMode, style.fgColor)
    \o bgColorParams(style.bgMode, style.bgColor)

\* buildSGR without the reset as its first parameter.
buildSGRNoReset(style) ==
    IF styleParams(style) = <<>> THEN sgr(<<0>>) ELSE sgr(styleParams(style))

buildSGR(style) == sgr(<<0>> \o styleParams(style))

DEFAULT_STYLE ==
    [fgMode |-> 0, fgColor |-> 0, bgMode |-> 0, bgColor |-> 0,
     bold |-> FALSE, italic |-> FALSE, underline |-> FALSE, dim |-> FALSE,
     inverse |-> FALSE, strikethrough |-> FALSE]

\* The loop of renderLine from column x (1-based) on, and its end.
RECURSIVE renderLineFrom(_, _, _, _, _, _, _)
renderLineFrom(line, x, cols, d, prevStyle, hasContent, segments) ==
    IF x > cols THEN (IF ~hasContent THEN <<>> ELSE segments \o RESET)
    ELSE LET cell == line[x]
             style == getCellStyle(cell, d)
             differs == ~stylesEqual(style, prevStyle)
             ch == IF cell.chars = <<>> THEN <<" ">> ELSE cell.chars
         IN  IF cell.width = 0
             THEN renderLineFrom(line, x + 1, cols, d, prevStyle, hasContent, segments)
             ELSE renderLineFrom(line, x + 1, cols, d,
                      IF differs THEN style ELSE prevStyle,
                      hasContent \/ differs \/ ch # <<" ">>,
                      segments \o (IF differs THEN buildSGR(style) ELSE <<>>) \o ch)

renderLine(line, cols, d) == renderLineFrom(line, 1, cols, d, DEFAULT_STYLE, FALSE, <<>>)

\* renderBuffer of a terminal whose buffer b holds terminal.rows lines and
\* has baseY 0.
renderBuffer(b, scrollOffset, visibleRows) ==
    LET startLine == Max(0, 0 - scrollOffset)
        rows == Min(visibleRows, Len(b.lines))
    IN  [i \in 1..rows |->
            IF startLine + i <= Len(b.lines)
            THEN renderLine(b.lines[startLine + i], b.cols, b.defaultColor)
            ELSE <<>>]

(***************************************************************************)
(* HydraApp.  A handler runs on the record w of the fields it may change   *)
(* (store state, status entries, renderer, render tracking) and of what    *)
(* it did to the store (the actions dispatched, the change events, a       *)
(* throw of the reducer).                                                  *)
(***************************************************************************)
Put(f, k, v) == [x \in (DOMAIN f) \cup {k} |-> IF x = k THEN v ELSE f[x]]

\* state.sessions.find((s) => s.id === state.activeSessionId) is defined
HasActiveSession(st) == FindIndex(st.sessions, st.activeSessionId) >= 0

\* activeSession && activeSession.exitCode === null
ActiveIsLive(st) ==
    LET k == FindIndex(st.sessions, st.activeSessionId)
    IN  k >= 0 /\ st.sessions[k + 1].exitCode = NoExit

NewEntry == [status |-> "idle", timer |-> NoTimer, captured |-> "none"]

\* A sync that creates the missing entries and drops none.
syncKeepsRemoved(w) ==
    LET sts == [id \in Ids(w.state.sessions) \cup DOMAIN w.statuses |->
                   IF id \in DOMAIN w.statuses THEN w.statuses[id] ELSE NewEntry]
    IN  [w EXCEPT !.statuses = sts, !.rend = setSessionStatuses(w.rend, sts)]

syncSessionStatuses(w) ==
    LET sts == [id \in Ids(w.state.sessions) |->
                   IF id \in DOMAIN w.statuses THEN w.statuses[id] ELSE NewEntry]
    IN  [w EXCEPT !.statuses = sts, !.rend = setSessionStatuses(w.rend, sts)]

\* The id of state.sessions.find((s) => s.id === state.activeSessionId), Null
\* for undefined.
ActiveSession(st) == IF HasActiveSession(st) THEN st.activeSessionId ELSE Null

render(w0) ==
    LET w == syncSessionStatuses(w0)
        st == w.state
    IN  IF st.mode \in {"creating-session", "confirming-close", "workspace-creating"}
        THEN [w EXCEPT !.rend = enterModal(w.rend, st), !.lastMode = st.mode]
        ELSE IF w.lastMode # "normal" /\ st.mode = "normal"
        THEN [w EXCEPT !.rend = exitModal(updateState(w.rend, st), ActiveSession(st)),
                       !.lastMode = st.mode,
                       !.lastRendered = st.activeSessionId]
        ELSE IF st.activeSessionId # w.lastRendered /\ HasActiveSession(st)
        THEN [w EXCEPT !.rend = handleSessionSwitch(w.rend, st.activeSessionId, st),
                       !.lastRendered = st.activeSessionId,
                       !.lastMode = st.mode]
        ELSE IF st.activeSessionId # w.lastRendered /\ w.lastRendered # Null
        THEN [w EXCEPT !.rend = drawChrome(renderPlaceholder(updateState(w.rend, st))),
                       !.lastRendered = Null,
                       !.lastMode = st.mode]
        ELSE [w EXCEPT !.rend = requestChromeRedraw(updateState(w.rend, st)),
                       !.lastMode = st.mode]

\* store.dispatch(a) with render subscribed to the change event.
dispatch(w, a) ==
    LET r == StoreDispatch(w.state, a)
        w1 == [w EXCEPT !.state = r.state,
                        !.dispatched = Append(@, a),
                        !.emitted = @ + (IF r.emit THEN 1 ELSE 0),
                        !.observed = @ \o r.change,
                        !.threw = @ \/ r.threw]
    IN  IF r.emit THEN render(w1) ELSE w1

setSessionStatus(w, id, status) ==
    IF id \in DOMAIN w.statuses /\ w.statuses[id].status = status THEN w
    ELSE LET e == IF id \in DOMAIN w.statuses
                  THEN [w.statuses[id] EXCEPT !.status = status]
                  ELSE [NewEntry EXCEPT !.status = status]
             sts == Put(w.statuses, id, e)
         IN  [w EXCEPT !.statuses = sts,
                       !.rend = requestChromeRedraw(setSessionStatuses(w.rend, sts))]

\* The timer's callback reads the status of the entry object of the moment
\* it was armed (captured); setSessionStatus replaces the entry by a new
\* object that keeps the timer handle.
resetSilenceTimer(w, id) ==
    IF id \notin DOMAIN w.statuses THEN w
    ELSE [w EXCEPT !.statuses[id] =
             [status |-> w.statuses[id].status, timer |-> SILENCE_MS,
              captured |-> w.statuses[id].status]]

silenceTimeout(w, id) ==
    LET captured == w.statuses[id].captured
        w1 == [w EXCEPT !.statuses[id] =
                  [@ EXCEPT !.timer = NoTimer, !.captured = "none"]]
    IN  IF captured = "working" THEN setSessionStatus(w1, id, "waiting") ELSE w1

\* The callback without the test of the session and the mode.
onRawPtyDataUngated(w, id, data) ==
    LET w1 == resetSilenceTimer(w, id)
    IN  [w1 EXCEPT !.rend = writePassthrough(w1.rend, data)]

onRawPtyData(w, id, data) ==
    LET w1 == resetSilenceTimer(w, id)
    IN  IF id = w1.state.activeSessionId /\ w1.state.mode = "normal"
        THEN [w1 EXCEPT !.rend = writePassthrough(w1.rend, data)]
        ELSE w1

onPtyData(w, id) ==
    IF id = w.state.activeSessionId /\ w.state.mode = "normal"
    THEN [w EXCEPT !.rend = drawChrome(updateState(w.rend, w.state))]
    ELSE w

\* onCloseSession without the test of the active session.
onCloseSessionUnguarded(w) == dispatch(w, SetMode("confirming-close"))

onCloseSession(w) ==
    IF HasActiveSession(w.state) THEN dispatch(w, SetMode("confirming-close")) ELSE w

\* InputHandler.handlePrefixCommand, for the keys other than q, g and s.
handlePrefixCommand(w, key) ==
    IF key \in {<<"n">>, <<"N">>} THEN dispatch(w, SetMode("creating-session"))
    ELSE IF key \in {<<"w">>, <<"W">>} THEN onCloseSession(w)
    ELSE IF key = <<"]">> THEN dispatch(w, NextTab)
    ELSE IF key = <<"[">> THEN dispatch(w, PrevTab)
    ELSE LET num == parseInt(key)
         IN  IF num >= 1 /\ num <= 9 THEN dispatch(w, JumpToTab(num - 1)) ELSE w

World ==
    [state |-> state, statuses |-> statuses, rend |-> rend,
     lastMode |-> lastMode, lastRendered |-> lastRenderedSessionId,
     dispatched |-> <<>>, emitted |-> 0, threw |-> FALSE, observed |-> <<>>]

\* The history of "working since": a session made working by a submit starts
\* at 0; one removed, or one whose PTY delivered data (quiet), has none.
SinceAfter(w, quiet) ==
    [id \in DOMAIN w.statuses |->
        IF id \in quiet THEN NoTimer
        ELSE IF id \notin DOMAIN statuses THEN NoTimer
        ELSE IF w.statuses[id].status = "working" /\ statuses[id].status # "working"
             THEN 0
        ELSE sinceWorking[id]]

\* The handler's result becomes the next state; e describes the step.
Commit(w, e, writes, quiet) ==
    /\ ~shut.exited
    /\ state' = w.state
    /\ prevState' = state
    /\ dispatched' = w.dispatched
    /\ emitted' = w.emitted
    /\ threw' = w.threw
    /\ observed' = w.observed
    /\ statuses' = w.statuses
    /\ rend' = w.rend
    /\ lastMode' = w.lastMode
    /\ lastRenderedSessionId' = w.lastRendered
    /\ ev' = e
    /\ ptyWrites' = writes
    /\ sinceWorking' = SinceAfter(w, quiet)
    /\ passed' = SubSeq(w.rend.out, Len(rend.out) + 1, Len(w.rend.out))
    /\ UNCHANGED <<buffer, frame>>

\* The chunk str arms the prefix timer.
Arms(str) ==
    /\ state.mode \notin {"creating-session", "confirming-close", "workspace-creating"}
    /\ str = <<CTRL_B>>
    /\ ~prefixActive

\* The step just taken: the handler (kind), its chunk and session, whether
\* the prefix was active before it (prefix), and whether the last chunk of
\* stdin is the CTRL_B that armed the prefix timer (quiet).
Event(kind, chunk, id) ==
    [kind |-> kind, chunk |-> chunk, id |-> id, prefix |-> prefixActive,
     quiet |-> IF kind = "stdin" THEN Arms(chunk) ELSE ev.quiet]

\* The writes of a chunk forwarded whatever the active session's exit code.
ForwardToExited(st, str) ==
    IF HasActiveSession(st) THEN <<[id |-> st.activeSessionId, data |-> str]>> ELSE <<>>

\* The writes of a chunk forwarded to the active session's PTY.
Forward(st, str) ==
    IF ActiveIsLive(st) THEN <<[id |-> st.activeSessionId, data |-> str]>> ELSE <<>>

(***************************************************************************)
(* Emulators (terminal-emulator.ts), PTY children (pty-manager.ts) and the *)
(* closure of createSession that batches a child's output.                 *)
(***************************************************************************)
createTerminal(cols, rows) ==
    [cols |-> cols, rows |-> rows, written |-> <<>>, disposed |-> 0]

resizeTerminal(terminal, cols, rows) ==
    [terminal EXCEPT !.cols = cols, !.rows = rows]

disposeTerminal(terminal) == [terminal EXCEPT !.disposed = @ + 1]

\* The child with the closure's pendingChunks and flushTimer; timers is the
\* number of timeouts set by proc.onData that neither fired nor were cleared,
\* delivered is what the child wrote so far, kills the calls of kill, and
\* termAtResize the emulator's size when the child was last resized.
spawnClaude(cols, rows) ==
    [cols |-> cols, rows |-> rows, pendingChunks |-> <<>>, flushTimer |-> FALSE,
     timers |-> 0, delivered |-> <<>>, kills |-> 0,
     termAtResize |-> [cols |-> cols, rows |-> rows]]

resizePty(proc, terminal, cols, rows) ==
    [proc EXCEPT !.cols = cols, !.rows = rows,
                 !.termAtResize = [cols |-> terminal.cols, rows |-> terminal.rows]]

killPty(proc) == [proc EXCEPT !.kills = @ + 1]

\* pendingChunks.join("")
RECURSIVE Join(_)
Join(chunks) == IF chunks = <<>> THEN <<>> ELSE Head(chunks) \o Join(Tail(chunks))

\* proc.onData of createSession: the chunk is kept and the flush timer
\* (re)started.
\* proc.onData that sets a timeout and leaves the one that is armed.
procOnDataKeepsTimer(proc, data) ==
    [proc EXCEPT !.pendingChunks = Append(@, data), !.flushTimer = TRUE,
                 !.timers = @ + 1,
                 !.delivered = @ \o data]

procOnData(proc, data) ==
    [proc EXCEPT !.pendingChunks = Append(@, data), !.flushTimer = TRUE,
                 !.timers = (IF proc.flushTimer THEN @ - 1 ELSE @) + 1,
                 !.delivered = @ \o data]

\* A flush that keeps the chunks it wrote.
flushKeepsChunks(proc) == [proc EXCEPT !.flushTimer = FALSE, !.timers = @ - 1]

\* flushPtyData of createSession, the callback of a timeout: what it leaves
\* of the closure, and what it writes to the emulator.
flushPtyData(proc) ==
    [proc EXCEPT !.flushTimer = FALSE, !.timers = @ - 1, !.pendingChunks = <<>>]

terminalWrite(terminal, batch) == [terminal EXCEPT !.written = @ \o batch]

\* f with the sessions of ids changed by op
OnEach(f, ids, op(_)) ==
    [id \in DOMAIN f |-> IF id \in ids THEN op(f[id]) ELSE f[id]]

\* The ids of a sequence of ids.
Range(seq) == {seq[i] : i \in 1..Len(seq)}

\* No buffer is being rendered.
NoBuffer == [cols |-> 0, lines |-> <<>>, defaultColor |-> 0]
NoFrame == [done |-> FALSE, lines |-> <<>>]

\* The process: the signal handlers of run() are installed, nothing is shut
\* down.
Running ==
    [cleaning |-> FALSE, handlers |-> TRUE, stopped |-> FALSE, cleanups |-> 0,
     restored |-> 0, exited |-> FALSE]

\* The application before run(): nothing is initialised.
AppConstructed ==
    /\ prefixActive = FALSE
    /\ prefixTimeout = NoTimer
    /\ sessionCreatorValue = <<>>
    /\ appError = FALSE
    /\ lastRenderedSessionId = Null
    /\ lastMode = "normal"
    /\ statuses = EmptyMap
    /\ pendingCreate = <<>>
    /\ pendingClose = <<>>
    /\ rend = RendNew
    /\ ptyAlive = {}
    /\ ptyWrites = <<>>
    /\ ev = [kind |-> "start", chunk |-> <<>>, id |-> Null, prefix |-> FALSE,
             quiet |-> FALSE]
    /\ sinceWorking = EmptyMap
    /\ terms = EmptyMap
    /\ procs = EmptyMap
    /\ worktrees = {}
    /\ shut = [Running EXCEPT !.handlers = FALSE]
    /\ passed = <<>>

(***************************************************************************)
(* SpecStore: the store driven by any sequence of actions.  A session      *)
(* added carries the next id of the counter, as createSession makes it.    *)
(***************************************************************************)
InitStore ==
    /\ state = initialState
    /\ prevState = initialState
    /\ dispatched = <<>>
    /\ emitted = 0
    /\ threw = FALSE
    /\ observed = <<>>
    /\ sessionCounter = 0
    /\ AppConstructed
    /\ buffer = NoBuffer
    /\ frame = NoFrame

\* An id made without the counter.
generateSessionIdConstant(counter) == IdOf(1)

\* generateSessionId: `session-${++sessionCounter}-${Date.now()}`
generateSessionId(counter) == IdOf(counter + 1)

DoAddSession ==
    /\ sessionCounter < MaxSessions
    /\ \E b \in Branches :
          Dispatch(AddSession(NewSession(generateSessionId(sessionCounter), b)))
    /\ sessionCounter' = sessionCounter + 1
    /\ UNCHANGED appVars

DoRemoveSession ==
    /\ \E id \in SessionIds : Dispatch(RemoveSession(id))
    /\ UNCHANGED <<sessionCounter, appVars>>

DoSetActive ==
    /\ \E id \in SessionIds : Dispatch(SetActive(id))
    /\ UNCHANGED <<sessionCounter, appVars>>

DoNextTab == Dispatch(NextTab) /\ UNCHANGED <<sessionCounter, appVars>>

DoPrevTab == Dispatch(PrevTab) /\ UNCHANGED <<sessionCounter, appVars>>

DoJumpToTab ==
    /\ \E i \in 0..(MaxSessions + 1) : Dispatch(JumpToTab(i))
    /\ UNCHANGED <<sessionCounter, appVars>>

DoSetMode ==
    /\ \E m \in Modes : Dispatch(SetMode(m))
    /\ UNCHANGED <<sessionCounter, appVars>>

DoSessionExited ==
    /\ \E id \in SessionIds, code \in ExitCodes : Dispatch(SessionExited(id, code))
    /\ UNCHANGED <<sessionCounter, appVars>>

DoScrollUp ==
    /\ \E n \in 0..MaxLines :
          /\ state.scrollOffset + n <= MaxScroll
          /\ Dispatch(ScrollUp(n))
    /\ UNCHANGED <<sessionCounter, appVars>>

DoScrollDown ==
    /\ \E n \in 0..MaxLines : Dispatch(ScrollDown(n))
    /\ UNCHANGED <<sessionCounter, appVars>>

DoResetScroll == Dispatch(ResetScroll) /\ UNCHANGED <<sessionCounter, appVars>>

\* An action of a type the reducer has no case for.
DoUnknown == Dispatch(Act("UNKNOWN")) /\ UNCHANGED <<sessionCounter, appVars>>

NextStore ==
    \/ DoAddSession
    \/ DoRemoveSession
    \/ DoSetActive
    \/ DoNextTab
    \/ DoPrevTab
    \/ DoJumpToTab
    \/ DoSetMode
    \/ DoSessionExited
    \/ DoScrollUp
    \/ DoScrollDown
    \/ DoResetScroll
    \/ DoUnknown

SpecStore == InitStore /\ [][NextStore]_vars

(***************************************************************************)
(* SpecRemove: REMOVE_SESSION applied to every state of up to MaxList      *)
(* distinct sessions (in the order of their creation) whose active id is   *)
(* the id of one of them.                                                  *)
(***************************************************************************)
RECURSIVE SessionsOf(_, _, _)
SessionsOf(n, created, exited) ==
    IF n > MaxList THEN <<>>
    ELSE (IF n \in created
          THEN <<[NewSession(IdOf(n), <<"a">>) EXCEPT
                    !.exitCode = IF n \in exited THEN 0 ELSE NoExit]>>
          ELSE <<>>) \o SessionsOf(n + 1, created, exited)

InitRemove ==
    /\ \E created \in SUBSET (1..MaxList), m \in Modes, o \in 0..MaxScroll :
         \E exited \in SUBSET created :
           LET l == SessionsOf(1, created, exited)
           IN  \E a \in (IF l = <<>> THEN {Null} ELSE Ids(l)) :
                 state = [sessions |-> l, activeSessionId |-> a,
                          mode |-> m, scrollOffset |-> o]
    /\ prevState = state
    /\ dispatched = <<>>
    /\ emitted = 0
    /\ threw = FALSE
    /\ observed = <<>>
    /\ sessionCounter = MaxList
    /\ AppConstructed
    /\ buffer = NoBuffer
    /\ frame = NoFrame

NextRemove == DoRemoveSession

SpecRemove == InitRemove /\ [][NextRemove]_vars

(***************************************************************************)
(* SpecTabs: NEXT_TAB and PREV_TAB applied, again and again, to every      *)
(* state of up to MaxList distinct sessions whose active id is the id of   *)
(* one of them.                                                            *)
(***************************************************************************)
NextTabs ==
    \/ DoNextTab
    \/ DoPrevTab

SpecTabs == InitRemove /\ [][NextTabs]_vars

(***************************************************************************)
(* The handlers of the running program, one action each.                   *)
(***************************************************************************)
\* The branch names the user types into the session creator.
TypedNames == {<<"x">>}

\* The user is typing one of these names.
IsTyped(value) ==
    \E name \in TypedNames :
        Len(value) <= Len(name) /\ SubSeq(name, 1, Len(value)) = value

\* The fields of the input handler and of the application that a handler
\* sets besides those of Commit; closing are the sessions closeSession
\* starts to close (the PTY killed, the emulator disposed, the removal of the
\* checkout awaited).
Fields(active, timeout, value, error, creating, closing) ==
    /\ prefixActive' = active
    /\ prefixTimeout' = timeout
    /\ sessionCreatorValue' = value
    /\ appError' = error
    /\ pendingCreate' = pendingCreate \o creating
    /\ pendingClose' = pendingClose \o closing
    /\ UNCHANGED <<sessionCounter, ptyAlive>>

\* closeSession up to its await, for the sessions of closing: killPty and
\* disposeTerminal.
Rest(active, timeout, value, error, creating, closing) ==
    /\ Fields(active, timeout, value, error, creating, closing)
    /\ procs' = OnEach(procs, Range(closing), killPty)
    /\ terms' = OnEach(terms, Range(closing), disposeTerminal)
    /\ UNCHANGED <<worktrees, shut>>

Idle == Rest(prefixActive, prefixTimeout, sessionCreatorValue, appError, <<>>, <<>>)

\* HydraApp.onSessionCreatorInput, up to the await of createSession.
SessionCreatorInput(str) ==
    LET e == Event("stdin", str, Null)
        trimmed == Trim(sessionCreatorValue)
    IN  IF startsWithEsc(str)
        THEN Commit(dispatch(World, SetMode("normal")), e, <<>>, {}) /\ Idle
        ELSE IF str \in {<<CR>>, <<LF>>}
        THEN IF Len(trimmed) > 0
             THEN /\ sessionCounter + Len(pendingCreate) < MaxSessions
                  /\ Commit(dispatch(World, SetMode("workspace-creating")), e, <<>>, {})
                  /\ Rest(prefixActive, prefixTimeout, sessionCreatorValue, FALSE,
                          <<[branch |-> trimmed, cols |-> rend.totalCols,
                             rows |-> rend.viewportRows]>>, <<>>)
             ELSE Commit(World, e, <<>>, {}) /\ Idle
        ELSE IF str \in {<<DEL>>, <<BS>>}
        THEN /\ Commit(render(World), e, <<>>, {})
             /\ Rest(prefixActive, prefixTimeout,
                     SubSeq(sessionCreatorValue, 1, Len(sessionCreatorValue) - 1),
                     appError, <<>>, <<>>)
        ELSE IF Len(str) = 1 /\ str[1] \notin ControlChars
        THEN /\ IsTyped(sessionCreatorValue \o str)
             /\ Commit(render(World), e, <<>>, {})
             /\ Rest(prefixActive, prefixTimeout, sessionCreatorValue \o str,
                     appError, <<>>, <<>>)
        ELSE Commit(World, e, <<>>, {}) /\ Idle

\* onConfirmDialogInput that cancels on the ESC character alone.
ConfirmDialogInputEscAlone(str) ==
    LET e == Event("stdin", str, Null)
    IN  IF str \in {<<"d">>, <<"D">>}
        THEN /\ HasActiveSession(state) => Len(pendingClose) < MaxPendingClose
             /\ Commit(dispatch(World, SetMode("normal")), e, <<>>, {})
             /\ Rest(prefixActive, prefixTimeout, sessionCreatorValue, appError, <<>>,
                     IF HasActiveSession(state) THEN <<state.activeSessionId>>
                     ELSE <<>>)
        ELSE IF str = <<ESC>>
        THEN Commit(dispatch(World, SetMode("normal")), e, <<>>, {}) /\ Idle
        ELSE Commit(World, e, <<>>, {}) /\ Idle

\* HydraApp.onConfirmDialogInput for the keys other than p, up to the await
\* of closeSession.
ConfirmDialogInput(str) ==
    LET e == Event("stdin", str, Null)
    IN  IF str \in {<<"d">>, <<"D">>}
        THEN /\ HasActiveSession(state) => Len(pendingClose) < MaxPendingClose
             /\ Commit(dispatch(World, SetMode("normal")), e, <<>>, {})
             /\ Rest(prefixActive, prefixTimeout, sessionCreatorValue, appError, <<>>,
                     IF HasActiveSession(state) THEN <<state.activeSessionId>>
                     ELSE <<>>)
        ELSE IF startsWithEsc(str)
        THEN Commit(dispatch(World, SetMode("normal")), e, <<>>, {}) /\ Idle
        ELSE Commit(World, e, <<>>, {}) /\ Idle

\* A prefix timer that the handler cleared.
KeepPrefixTimeout(timeout) == timeout

\* InputHandler.clearPrefixTimeout
clearPrefixTimeout(timeout) == NoTimer

\* handleData with the test of the prefix key before the dialogs.
HandleDataPrefixFirst(str) ==
    LET e == Event("stdin", str, Null)
    IN  IF str = <<CTRL_B>> /\ ~prefixActive
        THEN /\ Commit(World, e, <<>>, {})
             /\ Rest(TRUE, PREFIX_TIMEOUT_MS, sessionCreatorValue, appError, <<>>, <<>>)
        ELSE IF state.mode = "creating-session" THEN SessionCreatorInput(str)
        ELSE IF state.mode = "confirming-close" THEN ConfirmDialogInput(str)
        ELSE IF state.mode = "workspace-creating"
        THEN Commit(World, e, <<>>, {}) /\ Idle
        ELSE IF prefixActive
        THEN IF startsWithEsc(str)
             THEN Commit(World, e, Forward(state, str), {}) /\ Idle
             ELSE /\ Commit(handlePrefixCommand(World, str), e, <<>>, {})
                  /\ Rest(FALSE, clearPrefixTimeout(prefixTimeout),
                          IF str \in {<<"n">>, <<"N">>} THEN <<>>
                          ELSE sessionCreatorValue,
                          appError, <<>>, <<>>)
        ELSE /\ Commit(IF ActiveIsLive(state) /\ str = <<CR>>
                       THEN setSessionStatus(World, state.activeSessionId, "working")
                       ELSE World,
                       e, Forward(state, str), {})
             /\ Idle

\* InputHandler.handleData: a chunk of stdin.
HandleData(str) ==
    LET e == Event("stdin", str, Null)
    IN  IF state.mode = "creating-session" THEN SessionCreatorInput(str)
        ELSE IF state.mode = "confirming-close" THEN ConfirmDialogInput(str)
        ELSE IF state.mode = "workspace-creating"
        THEN Commit(World, e, <<>>, {}) /\ Idle
        ELSE IF Arms(str)
        THEN /\ Commit(World, e, <<>>, {})
             /\ Rest(TRUE, PREFIX_TIMEOUT_MS, sessionCreatorValue, appError, <<>>, <<>>)
        ELSE IF prefixActive
        THEN IF startsWithEsc(str)
             THEN Commit(World, e, Forward(state, str), {}) /\ Idle
             ELSE /\ Commit(handlePrefixCommand(World, str), e, <<>>, {})
                  /\ Rest(FALSE, clearPrefixTimeout(prefixTimeout),
                          IF str \in {<<"n">>, <<"N">>} THEN <<>>
                          ELSE sessionCreatorValue,
                          appError, <<>>, <<>>)
        ELSE /\ Commit(IF ActiveIsLive(state) /\ str = <<CR>>
                       THEN setSessionStatus(World, state.activeSessionId, "working")
                       ELSE World,
                       e, Forward(state, str), {})
             /\ Idle

\* What the prefix timer's callback writes whatever the session's exit code.
PrefixTimeoutWritesExited(st) ==
    IF HasActiveSession(st)
    THEN <<[id |-> st.activeSessionId, data |-> <<CTRL_B>>]>> ELSE <<>>

\* What the prefix timer's callback writes.
PrefixTimeoutWrites(st) == Forward(st, <<CTRL_B>>)

\* The callback of the prefix timer.
PrefixTimeout ==
    /\ prefixTimeout = 0
    /\ Commit(World, Event("prefix-timeout", <<>>, Null), PrefixTimeoutWrites(state), {})
    /\ Rest(FALSE, NoTimer, sessionCreatorValue, appError, <<>>, <<>>)

\* The callback of a session's silence timer.
SilenceTimeout ==
    \E id \in DOMAIN statuses :
        /\ statuses[id].timer = 0
        /\ Commit(silenceTimeout(World, id), Event("silence", <<>>, id), <<>>, {})
        /\ Idle

\* SessionManager.createSession after its await, then the rest of
\* onSessionCreatorInput: the session is added and the mode set to normal.
CreateSessionDone ==
    /\ pendingCreate # <<>>
    /\ LET id == generateSessionId(sessionCounter)
           call == Head(pendingCreate)
           w1 == dispatch(World, AddSession(NewSession(id, call.branch)))
       IN  /\ Commit(dispatch(w1, SetMode("normal")),
                     Event("create-done", <<>>, id), <<>>, {})
           /\ ptyAlive' = ptyAlive \cup {id}
           /\ terms' = Put(terms, id, createTerminal(call.cols, call.rows))
           /\ procs' = Put(procs, id, spawnClaude(call.cols, call.rows))
           /\ worktrees' = worktrees \cup {id}
    /\ sessionCounter' = sessionCounter + 1
    /\ pendingCreate' = Tail(pendingCreate)
    /\ UNCHANGED <<prefixActive, prefixTimeout, sessionCreatorValue, appError,
                   pendingClose, shut>>

\* createSession throws and the error is kept, as an earlier version had it:
\* the mode was set before the await and nothing is dispatched after it.
CreateSessionFailsSilently ==
    /\ pendingCreate # <<>>
    /\ Commit(World, Event("create-failed", <<>>, Null), <<>>, {})
    /\ appError' = TRUE
    /\ pendingCreate' = Tail(pendingCreate)
    /\ UNCHANGED <<prefixActive, prefixTimeout, sessionCreatorValue, sessionCounter,
                   pendingClose, ptyAlive, sysVars>>

\* createSession throws (the checkout or the spawn fails): the error is kept
\* and the mode set to normal.
CreateSessionFails ==
    /\ pendingCreate # <<>>
    /\ Commit(dispatch(World, SetMode("normal")),
              Event("create-failed", <<>>, Null), <<>>, {})
    /\ appError' = TRUE
    /\ pendingCreate' = Tail(pendingCreate)
    /\ UNCHANGED <<prefixActive, prefixTimeout, sessionCreatorValue, sessionCounter,
                   pendingClose, ptyAlive, sysVars>>

\* closeSession without the try around removeWorktree: a throw ends it.
closeSessionRethrows(i, removed) ==
    /\ Commit(IF removed THEN dispatch(World, RemoveSession(pendingClose[i]))
              ELSE World,
              Event(IF removed THEN "close-done" ELSE "close-kept", <<>>,
                    pendingClose[i]), <<>>, {})
    /\ pendingClose' = [k \in 1..(Len(pendingClose) - 1) |->
                           IF k < i THEN pendingClose[k] ELSE pendingClose[k + 1]]
    /\ worktrees' = IF removed THEN worktrees \ {pendingClose[i]} ELSE worktrees
    /\ UNCHANGED <<prefixActive, prefixTimeout, sessionCreatorValue, appError,
                   sessionCounter, pendingCreate, ptyAlive, terms, procs, shut>>

\* SessionManager.closeSession after its await of removeWorktree, which
\* removed the checkout or threw: REMOVE_SESSION.
closeSessionResumes(i, removed) ==
    /\ Commit(dispatch(World, RemoveSession(pendingClose[i])),
              Event(IF removed THEN "close-done" ELSE "close-kept", <<>>,
                    pendingClose[i]), <<>>, {})
    /\ pendingClose' = [k \in 1..(Len(pendingClose) - 1) |->
                           IF k < i THEN pendingClose[k] ELSE pendingClose[k + 1]]
    /\ worktrees' = IF removed THEN worktrees \ {pendingClose[i]} ELSE worktrees
    /\ UNCHANGED <<prefixActive, prefixTimeout, sessionCreatorValue, appError,
                   sessionCounter, pendingCreate, ptyAlive, terms, procs, shut>>

\* The checkout was removed.
CloseSessionDone == \E i \in 1..Len(pendingClose) : closeSessionResumes(i, TRUE)

\* removeWorktree threw.
CloseSessionRemovalFails ==
    \E i \in 1..Len(pendingClose) : closeSessionResumes(i, FALSE)

\* proc.onExit: SESSION_EXITED, then onPtyData.
PtyExit ==
    \E id \in ptyAlive, code \in PtyExitCodes :
        /\ Commit(onPtyData(dispatch(World, SessionExited(id, code)), id),
                  Event("pty-exit", <<>>, id), <<>>, {})
        /\ ptyAlive' = ptyAlive \ {id}
        /\ UNCHANGED <<prefixActive, prefixTimeout, sessionCreatorValue, appError,
                       sessionCounter, pendingCreate, pendingClose, sysVars>>

\* A chunk of PTY output: sessionManager.onRawPtyData.
PtyData(id, data) ==
    /\ id \in ptyAlive
    /\ Len(rend.out) < MaxOut
    /\ Commit(onRawPtyData(World, id, data), Event("pty-data", data, id), <<>>, {id})
    /\ Idle

\* The debounced batch of PTY output reached the emulator: onPtyData.
PtyFlush ==
    \E id \in ptyAlive :
        /\ Commit(onPtyData(World, id), Event("pty-flush", <<>>, id), <<>>, {})
        /\ Idle

\* The PTY of a session delivers a chunk: proc.onData.
ProcData(id, data) ==
    /\ id \in ptyAlive
    /\ Commit(World, Event("proc-data", data, id), <<>>, {})
    /\ Fields(prefixActive, prefixTimeout, sessionCreatorValue, appError, <<>>, <<>>)
    /\ procs' = [procs EXCEPT ![id] = procOnData(@, data)]
    /\ UNCHANGED <<terms, worktrees, shut>>

\* The PTY of a session delivers a chunk to proc.onData, which also passes
\* it to onRawPtyData before the flush timer.
PtyChunk(id, data) ==
    /\ id \in ptyAlive
    /\ Commit(onRawPtyData(World, id, data), Event("pty-chunk", data, id), <<>>, {id})
    /\ Fields(prefixActive, prefixTimeout, sessionCreatorValue, appError, <<>>, <<>>)
    /\ procs' = [procs EXCEPT ![id] = procOnData(@, data)]
    /\ UNCHANGED <<terms, worktrees, shut>>

\* The flush timer of a session fires: flushPtyData, whose write to the
\* emulator completes with onPtyData.
FlushPtyData(id) ==
    /\ id \in DOMAIN procs
    /\ procs[id].timers > 0
    /\ Commit(onPtyData(World, id), Event("pty-flush", <<>>, id), <<>>, {})
    /\ Fields(prefixActive, prefixTimeout, sessionCreatorValue, appError, <<>>, <<>>)
    /\ procs' = [procs EXCEPT ![id] = flushPtyData(@)]
    /\ terms' = [terms EXCEPT ![id] = terminalWrite(@, Join(procs[id].pendingChunks))]
    /\ UNCHANGED <<worktrees, shut>>

\* The ids of the sessions that have not exited.
LiveIds(sessions) ==
    {sessions[i].id : i \in {k \in 1..Len(sessions) : sessions[k].exitCode = NoExit}}

\* SessionManager.resizeAllSessions: the emulators after it, and the PTYs
\* after it (each resized after its emulator).
resizeTerminals(sessions, newCols, newRows) ==
    [id \in DOMAIN terms |->
        IF id \in LiveIds(sessions) THEN resizeTerminal(terms[id], newCols, newRows)
        ELSE terms[id]]

resizePtys(sessions, resized, newCols, newRows) ==
    [id \in DOMAIN procs |->
        IF id \in LiveIds(sessions)
        THEN resizePty(procs[id], resized[id], newCols, newRows)
        ELSE procs[id]]

\* HydraApp.handleResize: the host terminal has rows x cols.
Resize(rows, cols) ==
    LET w1 == [World EXCEPT !.rend = rendererResize(@, rows, cols)]
        w2 == IF ActiveIsLive(state) THEN onPtyData(w1, state.activeSessionId) ELSE w1
        w3 == IF state.mode # "normal" THEN render(w2)
              ELSE IF HasActiveSession(state)
              THEN [w2 EXCEPT !.rend = drawChrome(repaintViewport(
                                           updateState(@, state),
                                           state.activeSessionId))]
              ELSE [w2 EXCEPT !.rend = drawChrome(renderPlaceholder(
                                           updateState(@, state)))]
    IN  /\ Commit(w3, Event("resize", <<>>, Null), <<>>, {})
        /\ Fields(prefixActive, prefixTimeout, sessionCreatorValue, appError,
                  <<>>, <<>>)
        /\ terms' = resizeTerminals(state.sessions, w1.rend.totalCols,
                                    w1.rend.viewportRows)
        /\ procs' = resizePtys(state.sessions, terms', w1.rend.totalCols,
                               w1.rend.viewportRows)
        /\ UNCHANGED <<worktrees, shut>>

\* Time passes by TickMs; a timer that is due fires first.
Tick ==
    /\ ~shut.exited
    /\ prefixTimeout # 0
    /\ \A id \in DOMAIN statuses : statuses[id].timer # 0
    /\ \/ prefixTimeout > 0
       \/ \E id \in DOMAIN statuses :
             \/ statuses[id].timer > 0
             \/ (statuses[id].status = "working" /\ sinceWorking[id] >= 0
                   /\ sinceWorking[id] <= SILENCE_MS)
    /\ prefixTimeout' = IF prefixTimeout > 0 THEN Max(0, prefixTimeout - TickMs)
                        ELSE prefixTimeout
    /\ statuses' = [id \in DOMAIN statuses |->
                      IF statuses[id].timer > 0
                      THEN [statuses[id] EXCEPT !.timer = Max(0, @ - TickMs)]
                      ELSE statuses[id]]
    /\ sinceWorking' = [id \in DOMAIN sinceWorking |->
                          IF statuses[id].status = "working" /\ sinceWorking[id] >= 0
                          THEN Min(sinceWorking[id] + TickMs, SILENCE_MS + TickMs)
                          ELSE sinceWorking[id]]
    /\ ev' = Event("tick", <<>>, Null)
    /\ ptyWrites' = <<>>
    /\ passed' = <<>>
    /\ prevState' = state
    /\ dispatched' = <<>>
    /\ emitted' = 0
    /\ threw' = FALSE
    /\ observed' = <<>>
    /\ UNCHANGED <<state, sessionCounter, prefixActive, sessionCreatorValue, appError,
                   lastRenderedSessionId, lastMode, pendingCreate, pendingClose,
                   rend, ptyAlive, sysVars, buffer, frame>>

(***************************************************************************)
(* Shutdown (cleanup.ts, HydraApp.shutdown).  An await of a promise that   *)
(* is already settled resumes before any other event is handled, so the    *)
(* signal handler and the quit command each run to the exit of the process *)
(* in one step.                                                            *)
(***************************************************************************)
Sys == [procs |-> procs, terms |-> terms, worktrees |-> worktrees, cleanups |-> 0]

\* cleanupAllSessions as an earlier version had it: the checkouts are removed.
cleanupAllSessionsRemoving(c, sessions) ==
    [procs |-> OnEach(c.procs, Ids(sessions), killPty),
     terms |-> OnEach(c.terms, Ids(sessions), disposeTerminal),
     worktrees |-> c.worktrees \ Ids(sessions),
     cleanups |-> c.cleanups + 1]

\* cleanupAllSessions: kill the PTY and dispose the emulator of each
\* session; the checkouts are kept.
cleanupAllSessions(c, sessions) ==
    [procs |-> OnEach(c.procs, Ids(sessions), killPty),
     terms |-> OnEach(c.terms, Ids(sessions), disposeTerminal),
     worktrees |-> c.worktrees,
     cleanups |-> c.cleanups + 1]

\* A shutdown after which the process keeps running its event loop.
ExitsEventLoopRuns(c, n, cleaning) ==
    /\ procs' = c.procs
    /\ terms' = c.terms
    /\ worktrees' = c.worktrees
    /\ shut' = [shut EXCEPT !.cleaning = cleaning,
                            !.handlers = FALSE, !.stopped = TRUE,
                            !.cleanups = @ + c.cleanups, !.restored = @ + n]

\* The system after a shutdown that left c, with n restores of the terminal;
\* cleaning is the flag of the signal handler.
Exits(c, n, cleaning) ==
    /\ procs' = c.procs
    /\ terms' = c.terms
    /\ worktrees' = c.worktrees
    /\ shut' = [shut EXCEPT !.cleaning = cleaning,
                            !.handlers = FALSE, !.stopped = TRUE,
                            !.cleanups = @ + c.cleanups, !.restored = @ + n,
                            !.exited = TRUE]

\* The quit command (q after CTRL_B): HydraApp.shutdown removes the signal
\* handlers, stops the input, cleans up the sessions, restores the terminal
\* (renderer.cleanup) and resolves run(), after which main exits.
Quit ==
    /\ state.mode \notin {"creating-session", "confirming-close", "workspace-creating"}
    /\ prefixActive
    /\ ~shut.stopped
    /\ Commit(World, Event("stdin", <<"q">>, Null), <<>>, {})
    /\ Fields(FALSE, NoTimer, sessionCreatorValue, appError, <<>>, <<>>)
    /\ Exits(cleanupAllSessions(Sys, state.sessions), 1, shut.cleaning)

\* A signal (SIGINT, SIGTERM or SIGHUP): the handler of installSignalHandlers
\* cleans up the sessions, restores the terminal, calls onExit (which is
\* HydraApp.shutdown, run up to its await) and exits.
Signal ==
    /\ shut.handlers
    /\ Commit(World, Event("signal", <<>>, Null), <<>>, {})
    /\ IF shut.cleaning
       THEN Idle
       ELSE /\ Fields(prefixActive, NoTimer, sessionCreatorValue, appError,
                      <<>>, <<>>)
            /\ Exits(cleanupAllSessions(cleanupAllSessions(Sys, state.sessions),
                                        state.sessions), 1, TRUE)

(***************************************************************************)
(* The program after HydraApp.run() started it in a terminal of rows x     *)
(* cols with n checkouts to restore: the renderer is initialised, every    *)
(* checkout became a session (ADD_SESSION, rendered), and the initial      *)
(* render ran.                                                             *)
(***************************************************************************)
RECURSIVE Restore(_, _)
Restore(w, n) ==
    IF n = 0 THEN w
    ELSE dispatch(Restore(w, n - 1), AddSession(NewSession(IdOf(n), <<"a">>)))

Started(n, rows, cols) ==
    render(Restore([state |-> initialState, statuses |-> EmptyMap,
                    rend |-> initialize(RendNew, rows, cols),
                    lastMode |-> "normal", lastRendered |-> Null,
                    dispatched |-> <<>>, emitted |-> 0, threw |-> FALSE,
                    observed |-> <<>>], n))

NoEvent ==
    [kind |-> "start", chunk |-> <<>>, id |-> Null, prefix |-> FALSE,
     quiet |-> FALSE]

InitApp(n, rows, cols) ==
    LET w == Started(n, rows, cols)
    IN  /\ state = w.state
        /\ prevState = w.state
        /\ dispatched = <<>>
        /\ emitted = 0
        /\ threw = FALSE
        /\ observed = <<>>
        /\ sessionCounter = n
        /\ prefixActive = FALSE
        /\ prefixTimeout = NoTimer
        /\ sessionCreatorValue = <<>>
        /\ appError = FALSE
        /\ lastRenderedSessionId = w.lastRendered
        /\ lastMode = w.lastMode
        /\ statuses = w.statuses
        /\ pendingCreate = <<>>
        /\ pendingClose = <<>>
        /\ rend = w.rend
        /\ ptyAlive = Ids(w.state.sessions)
        /\ ptyWrites = <<>>
        /\ ev = NoEvent
        /\ sinceWorking = [id \in DOMAIN w.statuses |-> NoTimer]
        /\ terms = [id \in Ids(w.state.sessions) |->
                       createTerminal(w.rend.totalCols, w.rend.viewportRows)]
        /\ procs = [id \in Ids(w.state.sessions) |->
                       spawnClaude(w.rend.totalCols, w.rend.viewportRows)]
        /\ worktrees = Ids(w.state.sessions)
        /\ shut = Running
        /\ passed = <<>>
        /\ buffer = NoBuffer
        /\ frame = NoFrame

(***************************************************************************)
(* Spec: the input router.  The user types chunks of InputChunks (Enter is *)
(* the line feed), sessions are created and closed, PTYs exit and the      *)
(* prefix timer runs.                                                      *)
(***************************************************************************)
InputChunks ==
    {<<CTRL_B>>, <<ESC, "[", "A">>, <<"n">>, <<"w">>, <<"d">>, <<"]">>, <<"[">>,
     <<"1">>, <<"3">>, <<LF>>}

\* What the user types into the session creator.
CreatorChunks == {<<"x">>, <<ESC, "[", "A">>, <<LF>>, <<DEL>>, <<CTRL_B>>}

\* The numbers of checkouts found at the start.
Restorable == {0, 1}

Init == \E n \in Restorable : InitApp(n, TermRows, TermCols)

Stdin ==
    \E str \in (IF state.mode = "creating-session" THEN CreatorChunks
                ELSE InputChunks) : HandleData(str)

Next ==
    \/ Stdin
    \/ PrefixTimeout
    \/ Tick
    \/ CreateSessionDone
    \/ CreateSessionFails
    \/ CloseSessionDone
    \/ CloseSessionRemovalFails
    \/ PtyExit

Spec == Init /\ [][Next]_vars

(***************************************************************************)
(* SpecClose: the closing of sessions.  The program starts with            *)
(* MaxSessions sessions, the user closes them (CTRL_B w, then d), PTYs     *)
(* exit, and every removeWorktree that closeSession awaits settles (the    *)
(* git command ends).                                                      *)
(***************************************************************************)
CloseChunks == {<<CTRL_B>>, <<"w">>, <<"d">>, <<"]">>}

InitClose == InitApp(MaxSessions, TermRows, TermCols)

StdinClose == \E str \in CloseChunks : HandleData(str)

NextClose ==
    \/ StdinClose
    \/ CloseSessionDone
    \/ CloseSessionRemovalFails
    \/ PtyExit

\* A closeSession resumes: the steps CloseSessionDone and
\* CloseSessionRemovalFails, and only they, take a call out of pendingClose.
closeSettles ==
    \E i \in 1..Len(pendingClose) :
        pendingClose' = [k \in 1..(Len(pendingClose) - 1) |->
                            IF k < i THEN pendingClose[k] ELSE pendingClose[k + 1]]

SpecClose == InitClose /\ [][NextClose]_vars /\ WF_pendingClose(closeSettles)

(***************************************************************************)
(* SpecShutdown: the same program with the quit command and the signals.   *)
(***************************************************************************)
NextShutdown ==
    \/ Stdin
    \/ PrefixTimeout
    \/ Tick
    \/ CreateSessionDone
    \/ CreateSessionFails
    \/ CloseSessionDone
    \/ CloseSessionRemovalFails
    \/ PtyExit
    \/ Quit
    \/ Signal

SpecShutdown == Init /\ [][NextShutdown]_vars

(***************************************************************************)
(* SpecStatus: the status tracker.  The user types characters and submits  *)
(* with the carriage return, the PTYs deliver output and exit, and the     *)
(* silence timers run.                                                     *)
(***************************************************************************)
StatusChunks == {<<CR>>, <<"x">>}

StdinStatus == \E str \in StatusChunks : HandleData(str)

PtyOutput == \E id \in ptyAlive : PtyData(id, <<"x">>)

NextStatus ==
    \/ StdinStatus
    \/ PtyOutput
    \/ PtyFlush
    \/ SilenceTimeout
    \/ Tick
    \/ PtyExit

SpecStatus == Init /\ [][NextStatus]_vars

(***************************************************************************)
(* SpecPass: the pass-through of the output of the active session's PTY.   *)
(* A chunk is a fragment or two fragments in a row.                        *)
(***************************************************************************)
PassFragments ==
    {<<"X">>,
     <<ESC, "[", "?", "1", "0", "4", "9", "h">>,
     <<ESC, "[", "?", "1", "0">>,
     <<"4", "9", "h">>,
     <<ESC, "[", "6", "n">>,
     <<ESC, "[", "2", ";", "5", "r">>,
     <<ESC, "[", "2", ";">>,
     <<"5", "r">>}

PassChunks == PassFragments \cup {f \o g : f, g \in PassFragments}

InitPass == InitApp(1, TermRows, TermCols)

NextPass == \E id \in ptyAlive, data \in PassChunks : PtyData(id, data)

SpecPass == InitPass /\ [][NextPass]_vars

(***************************************************************************)
(* SpecFifo: the batching of PTY output.  The PTYs of the sessions deliver *)
(* chunks of FifoChunks, the flush timers fire and PTYs exit.              *)
(***************************************************************************)
FifoChunks == {<<"a">>, <<"b">>}

\* The characters delivered so far.
RECURSIVE DeliveredIn(_)
DeliveredIn(ids) ==
    IF ids = {} THEN 0
    ELSE LET id == CHOOSE x \in ids : TRUE
         IN  Len(procs[id].delivered) + DeliveredIn(ids \ {id})

InitFifo == InitApp(MaxSessions, TermRows, TermCols)

ProcOutput ==
    /\ DeliveredIn(DOMAIN procs) < MaxDelivered
    /\ \E id \in ptyAlive, data \in FifoChunks : ProcData(id, data)

FlushTimer == \E id \in DOMAIN procs : FlushPtyData(id)

NextFifo ==
    \/ ProcOutput
    \/ FlushTimer
    \/ PtyExit

SpecFifo == InitFifo /\ [][NextFifo]_vars

(***************************************************************************)
(* SpecGate: the gate of the pass-through.  The PTYs of MaxSessions        *)
(* sessions deliver chunks while the user switches tabs and opens and      *)
(* leaves the dialogs.                                                     *)
(***************************************************************************)
GateChunks == {<<CTRL_B>>, <<"n">>, <<"]">>, <<ESC>>}

PtyChunks == {<<"X">>, <<ESC, "[", "6", "n", "Y">>}

StdinGate == \E str \in GateChunks : HandleData(str)

PtyOutputGate ==
    /\ DeliveredIn(DOMAIN procs) < MaxDelivered
    /\ \E id \in ptyAlive, data \in PtyChunks : PtyChunk(id, data)

NextGate ==
    \/ StdinGate
    \/ PtyOutputGate

SpecGate == InitFifo /\ [][NextGate]_vars

(***************************************************************************)
(* SpecChrome: the chrome line.  Sessions are created and closed, PTYs     *)
(* exit, and the host terminal is resized to the widths of ChromeCols.     *)
(***************************************************************************)
ChromeChunks == {<<CTRL_B>>, <<"x">>, <<"n">>, <<"w">>, <<ESC>>, <<LF>>}

ChromeCols == {TermCols - 20, TermCols, TermCols + 20}

StdinChrome == \E str \in ChromeChunks : HandleData(str)

DoResize == \E cols \in ChromeCols : Resize(TermRows, cols)

NextChrome ==
    \/ StdinChrome
    \/ DoResize
    \/ CreateSessionDone
    \/ PtyExit

SpecChrome == Init /\ [][NextChrome]_vars

(***************************************************************************)
(* SpecPaint: the viewport.  From one restored session, sessions are       *)
(* created, switched and closed through the prefix commands and the        *)
(* dialogs, and the PTYs deliver output meanwhile.                         *)
(***************************************************************************)
PaintChunks ==
    {<<CTRL_B>>, <<"n">>, <<"x">>, <<LF>>, <<"]">>, <<"w">>, <<"d">>}

StdinPaint == \E str \in PaintChunks : HandleData(str)

\* A PTY delivers a character while fewer than MaxPainted were passed through.
PtyOutputPaint ==
    \E id \in ptyAlive : Len(rend.out) < MaxPainted /\ PtyData(id, <<"x">>)

NextPaint ==
    \/ StdinPaint
    \/ CreateSessionDone
    \/ CloseSessionDone
    \/ PtyOutputPaint

InitPaint == InitApp(1, TermRows, TermCols)

SpecPaint == InitPaint /\ [][NextPaint]_vars

(***************************************************************************)
(* SpecTimers: the timers and the shutdown.  The PTYs deliver chunks that  *)
(* arm the flush and silence timers, the user presses the prefix key, time *)
(* passes, the timers fire, and the program is quit or signalled.          *)
(***************************************************************************)
StdinTimers == HandleData(<<CTRL_B>>)

\* A PTY delivers a character while fewer than MaxPainted were delivered.
PtyOutputTimers ==
    /\ DeliveredIn(DOMAIN procs) < MaxPainted
    /\ \E id \in ptyAlive : PtyChunk(id, <<"X">>)

NextTimers ==
    \/ StdinTimers
    \/ PtyOutputTimers
    \/ FlushTimer
    \/ SilenceTimeout
    \/ PrefixTimeout
    \/ Tick
    \/ Quit
    \/ Signal

SpecTimers == InitPaint /\ [][NextTimers]_vars

(***************************************************************************)
(* SpecSync: the status map.  Sessions are created and closed, the PTY of   *)
(* the active session delivers output, time passes and the silence and     *)
(* prefix timers fire.                                                     *)
(***************************************************************************)
SyncChunks == {<<CTRL_B>>, <<"n">>, <<"x">>, <<LF>>, <<"w">>, <<"d">>}

StdinSync == \E str \in SyncChunks : HandleData(str)

\* The PTY of the active session delivers a character that is passed
\* through, while fewer than MaxArmed were.
PtyOutputSync ==
    /\ Len(rend.out) < MaxArmed
    /\ state.mode = "normal"
    /\ \E id \in ptyAlive : id = state.activeSessionId /\ PtyData(id, <<"x">>)

NextSync ==
    \/ StdinSync
    \/ CreateSessionDone
    \/ CloseSessionDone
    \/ PtyOutputSync
    \/ SilenceTimeout
    \/ PrefixTimeout
    \/ Tick

InitSync == InitApp(0, TermRows, TermCols)

SpecSync == InitSync /\ [][NextSync]_vars

(***************************************************************************)
(* SpecSwitch: output around a switch.  The PTYs of MaxSessions sessions   *)
(* deliver chunks and their flush timers fire while the user switches tabs *)
(* and opens and leaves the dialogs.                                       *)
(***************************************************************************)
NextSwitch ==
    \/ StdinGate
    \/ PtyOutputGate
    \/ FlushTimer

SpecSwitch == InitFifo /\ [][NextSwitch]_vars

(***************************************************************************)
(* SpecModal: the dialogs.  The program starts with one session; the user  *)
(* opens and leaves the dialogs, sessions are created and closed while a   *)
(* dialog may be displayed, and the host terminal is resized.              *)
(***************************************************************************)
ModalChunks == {<<CTRL_B>>, <<"n">>, <<"x">>, <<LF>>, <<"w">>, <<"d">>, <<ESC>>}

StdinModal == \E str \in ModalChunks : HandleData(str)

NextModal ==
    \/ StdinModal
    \/ DoResize
    \/ CreateSessionDone
    \/ CreateSessionFails
    \/ CloseSessionDone

SpecModal == InitPaint /\ [][NextModal]_vars

(***************************************************************************)
(* SpecGeometry: the geometry of the renderer.  The host terminal starts   *)
(* with and is resized to the heights 1..MaxRows while a dialog is opened  *)
(* and cancelled and the PTY of the session delivers output.               *)
(***************************************************************************)
GeometryRows == 1..MaxRows

GeometryChunks == {<<CTRL_B>>, <<"n">>, <<"w">>, <<ESC>>}

InitGeometry == \E rows \in GeometryRows : InitApp(1, rows, TermCols)

StdinGeometry == \E str \in GeometryChunks : HandleData(str)

ResizeGeometry ==
    \E rows \in GeometryRows : rows # rend.totalRows /\ Resize(rows, TermCols)

NextGeometry ==
    \/ StdinGeometry
    \/ ResizeGeometry
    \/ PtyOutputPaint

SpecGeometry == InitGeometry /\ [][NextGeometry]_vars

(***************************************************************************)
(* SpecRender: renderBuffer applied to the buffers of up to MaxCells cells *)
(* whose cells are drawn from two of the attribute sets of CellAttrs.      *)
(***************************************************************************)
Plain == Colour("default", 0)

CellAttrs ==
    {Attrs(Plain, Plain, {}),
     Attrs(Plain, Plain, {"bold"}),
     Attrs(Colour("palette", 1), Plain, {"dim"}),
     Attrs(Colour("palette", 9), Colour("palette", 4), {"italic"}),
     Attrs(Colour("palette", 200), Colour("palette", 12), {"underline"}),
     Attrs(Colour("rgb", 658188), Colour("palette", 16), {"inverse"}),
     Attrs(Colour("palette", 15), Colour("rgb", 16777215), {"strikethrough"}),
     Attrs(Plain, Colour("palette", 0), Flags)}

\* What getFgColor returns for a default colour: the 0 of DEFAULT_STYLE, or
\* the -1 of the emulator's cells.
DefaultColors == {0, -1}

\* The cells of a buffer: a character in the first attributes, a blank in
\* the second, and the continuation of a wide character.
CellsOf(a1, a2) ==
    {BufferCell(a1, <<"x">>, 1), BufferCell(a2, <<>>, 1), BufferCell(a1, <<>>, 0)}

InitRender ==
    /\ state = initialState
    /\ prevState = initialState
    /\ dispatched = <<>>
    /\ emitted = 0
    /\ threw = FALSE
    /\ observed = <<>>
    /\ sessionCounter = 0
    /\ AppConstructed
    /\ \E rows \in 1..MaxCells, a1 \in CellAttrs, a2 \in CellAttrs, d \in DefaultColors :
         \E cols \in 1..(MaxCells \div rows) :
           \E lines \in [1..rows -> [1..cols -> CellsOf(a1, a2)]] :
             buffer = [cols |-> cols, lines |-> lines, defaultColor |-> d]
    /\ frame = NoFrame

\* renderBuffer of the whole buffer, as repaintViewport reads it.
RenderBuffer ==
    /\ ~frame.done
    /\ frame' = [done |-> TRUE,
                 lines |-> renderBuffer(buffer, 0, Len(buffer.lines))]
    /\ UNCHANGED <<state, prevState, dispatched, emitted, threw, observed,
                   sessionCounter,
                   prefixActive, prefixTimeout, sessionCreatorValue, appError,
                   lastRenderedSessionId, lastMode, statuses, pendingCreate,
                   pendingClose, rend, ptyAlive, ptyWrites, ev, sinceWorking,
                   terms, procs, worktrees, shut, passed, buffer>>

NextRender == RenderBuffer

SpecRender == InitRender /\ [][NextRender]_vars

(***************************************************************************)
(* Properties of the store.                                                *)
(***************************************************************************)
IdList(sessions) == [i \in 1..Len(sessions) |-> sessions[i].id]

Distinct(sessions) ==
    \A i, j \in 1..Len(sessions) : sessions[i].id = sessions[j].id => i = j

LastAction == IF Len(dispatched) = 1 THEN dispatched[1] ELSE Act("none")

\* C1: in every state reachable by any sequence of reducer actions, a
\* non-empty session list has its active id among its ids, and an empty list
\* has the active id null.
C1_ActiveInvariant ==
    /\ state.sessions # <<>> => state.activeSessionId \in Ids(state.sessions)
    /\ state.sessions = <<>> => state.activeSessionId = Null

\* C2 as stated: every action that changes the sessions list (membership,
\* order, or a session's record such as its exit code) or the active id
\* leaves scrollOffset = 0.
C2_ScrollResetAnyListChange ==
    (state.sessions # prevState.sessions
        \/ state.activeSessionId # prevState.activeSessionId)
    => state.scrollOffset = 0

\* C2 amended: every action that changes the membership or the order of the
\* sessions list, or the active id, leaves scrollOffset = 0 (SESSION_EXITED,
\* which changes only a session's exit code, keeps the scroll offset).
C2_ScrollResetOnListOrActive ==
    (IdList(state.sessions) # IdList(prevState.sessions)
        \/ state.activeSessionId # prevState.activeSessionId)
    => state.scrollOffset = 0

\* C2's case: the active id changed in a state that was scrolled back.
C2_Witness ==
    /\ prevState.scrollOffset > 0
    /\ state.activeSessionId # prevState.activeSessionId
    /\ LastAction.type \in {"NEXT_TAB", "PREV_TAB", "JUMP_TO_TAB", "REMOVE_SESSION"}

\* C8: REMOVE_SESSION of the active session at index k of a list of distinct
\* sessions yields the list without it, the active id of the session at
\* index min(k, len-1) of the remaining list (null if none remains), mode
\* normal and scrollOffset 0; REMOVE_SESSION of a non-active session leaves
\* the active id unchanged.
C8_RemoveSession ==
    (LastAction.type = "REMOVE_SESSION" /\ Distinct(prevState.sessions) /\ ~threw)
    => LET id == LastAction.sessionId
           rest == SelectSeq(prevState.sessions, LAMBDA s : s.id # id)
       IN  /\ state.sessions = rest
           /\ state.mode = "normal"
           /\ state.scrollOffset = 0
           /\ \A k \in 1..Len(prevState.sessions) :
                 (prevState.sessions[k].id = id /\ prevState.activeSessionId = id)
                 => state.activeSessionId =
                        IF rest = <<>> THEN Null
                        ELSE rest[Min(k - 1, Len(rest) - 1) + 1].id
           /\ prevState.activeSessionId # id
                 => state.activeSessionId = prevState.activeSessionId

\* C8's case: the active session b of [a, b, c] was removed and c is active.
C8_Witness ==
    /\ LastAction.type = "REMOVE_SESSION"
    /\ Len(prevState.sessions) = 3
    /\ prevState.activeSessionId = LastAction.sessionId
    /\ prevState.sessions[2].id = LastAction.sessionId
    /\ IdList(state.sessions) = <<prevState.sessions[1].id, prevState.sessions[3].id>>
    /\ state.activeSessionId = prevState.sessions[3].id

CtrlBWrite == <<[id |-> state.activeSessionId, data |-> <<CTRL_B>>]>>

\* C3 as stated: when the prefix timer fires, 500 ms after a CTRL_B that
\* arrived in normal mode with the prefix inactive and that no chunk of stdin
\* followed, exactly one CTRL_B is written to the PTY of the active session,
\* the prefix is inactive and the mode is normal.
C3_PrefixTimeoutForwards ==
    (ev.kind = "prefix-timeout" /\ ev.quiet /\ HasActiveSession(state))
    => /\ ptyWrites = CtrlBWrite
       /\ ~prefixActive
       /\ state.mode = "normal"

\* C3 amended: a CTRL_B that arrives in normal mode with the prefix inactive
\* arms the timer with PREFIX_TIMEOUT_MS; when the timer fires and no chunk
\* of stdin followed the CTRL_B, exactly one CTRL_B is written to the PTY of
\* the active session if that session has not exited, nothing is written if
\* it has exited or no session is active, the prefix is inactive with no
\* timer, and the mode is normal.
C3_PrefixTimeoutForwardsIfLive ==
    /\ (ev.kind = "stdin" /\ ev.quiet)
       => (prefixActive /\ prefixTimeout = PREFIX_TIMEOUT_MS /\ ptyWrites = <<>>)
    /\ (ev.kind = "prefix-timeout" /\ ev.quiet)
       => /\ ptyWrites = IF ActiveIsLive(state) THEN CtrlBWrite ELSE <<>>
          /\ ~prefixActive
          /\ prefixTimeout = NoTimer
          /\ state.mode = "normal"

\* C3's case: the timer of a CTRL_B that nothing followed fired and the
\* CTRL_B was written to the live active session.
C3_Witness ==
    /\ ev.kind = "prefix-timeout"
    /\ ev.quiet
    /\ ptyWrites = CtrlBWrite

JumpOutOfRange ==
    /\ ev.kind = "stdin"
    /\ ev.prefix
    /\ parseInt(ev.chunk) >= 1
    /\ parseInt(ev.chunk) <= 9
    /\ parseInt(ev.chunk) > Len(prevState.sessions)

\* C10: with n sessions, the prefix command of a digit d in 1..9 with d > n
\* leaves the whole state of the store unchanged (active id, mode, scroll
\* offset, sessions) and the store emits no change event.
C10_JumpOutOfRange ==
    JumpOutOfRange => (state = prevState /\ emitted = 0)

\* C10's case: with at least one session, the digit after the last tab.
C10_Witness ==
    /\ JumpOutOfRange
    /\ prevState.sessions # <<>>
    /\ parseInt(ev.chunk) = Len(prevState.sessions) + 1
    /\ dispatched = <<JumpToTab(Len(prevState.sessions))>>

(***************************************************************************)
(* Properties of the status tracker, the pass-through and the chrome.      *)
(***************************************************************************)
\* C7: a session made working by a submit at time t whose PTY delivers no
\* data from t on is working until t + SILENCE_MS and waiting from then on:
\* it is not working later than that, and it is waiting no earlier.
C7_SilenceTransition ==
    \A id \in DOMAIN statuses :
        sinceWorking[id] >= 0
        => /\ statuses[id].status = "working" => sinceWorking[id] <= SILENCE_MS
           /\ statuses[id].status = "waiting" => sinceWorking[id] = SILENCE_MS

\* The sequence out[i..] starts with a sequence the host must not receive.
ForbiddenAt(out, i) ==
    \/ MatchAltScreen(out, i) > 0
    \/ MatchFocus(out, i) > 0
    \/ MatchDsr(out, i) > 0
    \/ MatchDa(out, i) > 0
    \/ /\ MatchDecstbm(out, i) > 0
       /\ SubSeq(out, i, i + MatchDecstbm(out, i) - 1)
             # setScrollRegion(1, rend.viewportRows)

\* C5: whatever chunks writePassthrough was given, the bytes it wrote to the
\* host hold no DECSTBM other than the compositor's own [1, viewportRows],
\* no alt-screen toggle, no focus-reporting toggle and no DA or DSR request.
C5_PassthroughSafe ==
    \A i \in 1..Len(rend.out) : ~ForbiddenAt(rend.out, i)

\* C6: every chrome line drawn has the visible length of the terminal's
\* width.
C6_ChromeWidth ==
    rend.chrome.drawn => visibleLength(ChromeLine(rend)) = rend.chrome.cols

\* C11: scrollOffset is a non-negative integer in every reachable state;
\* SCROLL_DOWN(n) yields max(0, scrollOffset - n) (from 3, SCROLL_DOWN(5)
\* gives 0) and SCROLL_UP(n) yields scrollOffset + n.
C11_ScrollNonNegative ==
    /\ state.scrollOffset \in Nat
    /\ LastAction.type = "SCROLL_DOWN"
       => state.scrollOffset = Max(0, prevState.scrollOffset - LastAction.lines)
    /\ LastAction.type = "SCROLL_UP"
       => state.scrollOffset = prevState.scrollOffset + LastAction.lines
    /\ Apply([initialState EXCEPT !.scrollOffset = 3], ScrollDown(5)).scrollOffset = 0

\* C11's case: SCROLL_DOWN by more lines than the view was scrolled back.
C11_Witness ==
    /\ LastAction.type = "SCROLL_DOWN"
    /\ prevState.scrollOffset > 0
    /\ LastAction.lines > prevState.scrollOffset
    /\ state.scrollOffset = 0

\* The writes to PTYs of the last step go to the session that was active
\* before it, and that session had not exited.
WritesToLiveActive ==
    \A k \in 1..Len(ptyWrites) :
        /\ ptyWrites[k].id = prevState.activeSessionId
        /\ ActiveIsLive(prevState)

\* An exit code recorded for a session stays recorded while it is listed.
ExitRecorded ==
    \A i \in 1..Len(prevState.sessions), j \in 1..Len(state.sessions) :
        (prevState.sessions[i].id = state.sessions[j].id
            /\ prevState.sessions[i].exitCode # NoExit)
        => state.sessions[j].exitCode = prevState.sessions[i].exitCode

C13_ShutdownOnce ==
    shut.exited => (shut.cleanups = 1 /\ shut.restored = 1)

\* C14: the step that ends the process (the quit command or a signal)
\* removes no checkout, and a checkout is removed only by the step in which
\* closeSession of its session resumes after removeWorktree.
C14_CheckoutsPreserved ==
    [][/\ shut'.exited => worktrees' = worktrees
       /\ (worktrees \ worktrees') \subseteq
             (IF ev'.kind = "close-done" THEN {ev'.id} ELSE {})]_vars

\* C14's case: the process has exited with sessions in the list, one of them
\* closed by the user with its checkout removal still awaited.
C14_Witness ==
    /\ shut.exited
    /\ Len(state.sessions) = 2
    /\ pendingClose # <<>>
    /\ Ids(state.sessions) \subseteq worktrees

\* C15: the submit of a branch name in the session creator dispatches only
\* SET_MODE; when createSession then throws, no ADD_SESSION is dispatched,
\* the sessions list and the active id are unchanged, the error is recorded
\* and the mode is normal.
C15_CreateFailure ==
    /\ (ev.kind = "stdin" /\ state.mode = "workspace-creating"
            /\ prevState.mode = "creating-session")
       => /\ dispatched = <<SetMode("workspace-creating")>>
          /\ ~appError
          /\ state.sessions = prevState.sessions
    /\ ev.kind = "create-failed"
       => /\ \A k \in 1..Len(dispatched) : dispatched[k].type # "ADD_SESSION"
          /\ state.sessions = prevState.sessions
          /\ state.activeSessionId = prevState.activeSessionId
          /\ appError
          /\ state.mode = "normal"

\* C15's case: createSession threw while the creation was shown, with a
\* session in the list.
C15_Witness ==
    /\ ev.kind = "create-failed"
    /\ prevState.mode = "workspace-creating"
    /\ state.sessions # <<>>
    /\ appError
    /\ state.mode = "normal"

\* closeSession of the session id resumed and dispatched REMOVE_SESSION(id).
Removed(id) ==
    /\ ev.kind \in {"close-done", "close-kept"}
    /\ ev.id = id
    /\ \E k \in 1..Len(dispatched) : dispatched[k] = RemoveSession(id)

\* C16: every call of closeSession(s) is followed by the dispatch of
\* REMOVE_SESSION(s.id), whether removeWorktree removed the checkout or
\* threw, and whether or not the PTY was still alive when it was killed.
C16_CloseRemoves ==
    \A id \in SessionIds : (id \in Range(pendingClose)) ~> Removed(id)

\* C16's case: removeWorktree threw for a session whose PTY had exited before
\* the close, and REMOVE_SESSION was dispatched.
C16_Witness ==
    /\ ev.kind = "close-kept"
    /\ Removed(ev.id)
    /\ ev.id \notin Ids(state.sessions)
    /\ \E i \in 1..Len(prevState.sessions) :
          /\ prevState.sessions[i].id = ev.id
          /\ prevState.sessions[i].exitCode # NoExit
    /\ ev.id \in worktrees

\* s is a prefix of t.
IsPrefix(s, t) == Len(s) <= Len(t) /\ SubSeq(t, 1, Len(s)) = s

\* C17: for each session, what was written to its emulator is a prefix of
\* what its PTY delivered, in the order of delivery, and the rest is exactly
\* the chunks that await the flush: nothing is written twice, dropped or
\* reordered by the batching.
C17_PerSessionFifo ==
    \A id \in DOMAIN procs :
        /\ IsPrefix(terms[id].written, procs[id].delivered)
        /\ terms[id].written \o Join(procs[id].pendingChunks) = procs[id].delivered
        /\ procs[id].pendingChunks # <<>> => procs[id].flushTimer

\* C17's case: a session was flushed twice, the second batch made of two
\* chunks, while the other session's chunk awaits its flush.
C17_Witness ==
    \E id \in DOMAIN procs, other \in DOMAIN procs :
        /\ id # other
        /\ ev.kind = "pty-flush"
        /\ ev.id = id
        /\ terms[id].written = <<"a", "b", "a">>
        /\ procs[id].pendingChunks = <<>>
        /\ procs[other].pendingChunks = <<<<"b">>>>

\* C18: every session of the list that has not exited has an emulator of the
\* renderer's current cols x rows (the viewport rows), and at each resize
\* of a PTY its emulator had been resized before.
C18_EmulatorDims ==
    /\ \A id \in LiveIds(state.sessions) :
          /\ terms[id].cols = rend.totalCols
          /\ terms[id].rows = rend.viewportRows
    /\ \A id \in DOMAIN procs :
          procs[id].termAtResize = [cols |-> procs[id].cols, rows |-> procs[id].rows]

\* C19: bytes are passed through to stdout only by a chunk of the PTY of the
\* session that is active, in normal mode; the chunk of any other session,
\* and a chunk that arrives while a dialog is shown, writes nothing to stdout,
\* and every chunk is kept for the session's emulator.
C19_PassthroughGate ==
    /\ passed # <<>>
       => /\ ev.kind = "pty-chunk"
          /\ ev.id = prevState.activeSessionId
          /\ prevState.mode = "normal"
          /\ passed = Safe(ev.chunk, rend.viewportRows)
    /\ ev.kind = "pty-chunk"
       => /\ procs[ev.id].pendingChunks # <<>>
          /\ procs[ev.id].pendingChunks[Len(procs[ev.id].pendingChunks)] = ev.chunk
          /\ procs[ev.id].flushTimer
          /\ (ev.id = prevState.activeSessionId /\ prevState.mode = "normal")
             => passed = Safe(ev.chunk, rend.viewportRows)

\* C19's case: the PTY of the active session delivered a chunk while the
\* session creator was shown; nothing was written to stdout and the chunk
\* awaits the flush to the emulator.
C19_Witness ==
    /\ ev.kind = "pty-chunk"
    /\ ev.id = prevState.activeSessionId
    /\ prevState.mode = "creating-session"
    /\ passed = <<>>
    /\ procs[ev.id].pendingChunks = <<ev.chunk>>

\* C20: a chunk of stdin that arrives while the session creator or the close
\* confirmation is shown (CTRL_B included) goes to the dialog only: nothing
\* is written to a PTY, the prefix stays as it was (inactive, without timer),
\* and the chunk is not taken as a prefix command (the only dispatches are
\* the dialog's SET_MODE).
C20_ModalPriority ==
    (ev.kind = "stdin" /\ prevState.mode \in {"creating-session", "confirming-close"})
    => /\ ptyWrites = <<>>
       /\ prefixActive = ev.prefix
       /\ ~prefixActive
       /\ prefixTimeout = NoTimer
       /\ ~ev.quiet
       /\ dispatched \in {<<>>, <<SetMode("normal")>>, <<SetMode("workspace-creating")>>}
       /\ state.sessions = prevState.sessions
       /\ state.activeSessionId = prevState.activeSessionId

\* C20's case: CTRL_B arrived while the close confirmation of a live session
\* was shown; the dialog ignored it.
C20_Witness ==
    /\ ev.kind = "stdin"
    /\ ev.chunk = <<CTRL_B>>
    /\ prevState.mode = "confirming-close"
    /\ ActiveIsLive(prevState)
    /\ state = prevState
    /\ ~prefixActive
    /\ ptyWrites = <<>>

(***************************************************************************)
(* Properties of the dialogs, the store and the renderer.                  *)
(***************************************************************************)
\* C21: in the session creator or the close confirmation, a chunk of stdin
\* that starts with ESC (whatever follows) sets the mode to normal, starts no
\* creation and no close, and leaves the session list, the active id, the
\* PTYs, the emulators and the checkouts as they were.
C21_EscCancelsModal ==
    [][(/\ ev'.kind = "stdin"
        /\ state.mode \in {"creating-session", "confirming-close"}
        /\ startsWithEsc(ev'.chunk))
       => /\ state'.mode = "normal"
          /\ dispatched' = <<SetMode("normal")>>
          /\ state'.sessions = state.sessions
          /\ state'.activeSessionId = state.activeSessionId
          /\ pendingCreate' = pendingCreate
          /\ pendingClose' = pendingClose
          /\ ptyWrites' = <<>>
          /\ UNCHANGED <<sessionCounter, terms, procs, worktrees>>]_vars

\* C21's case: the up arrow (ESC [ A) arrived while the close confirmation
\* of a session was shown, and the mode is normal.
C21_Witness ==
    /\ ev.kind = "stdin"
    /\ ev.chunk = <<ESC, "[", "A">>
    /\ prevState.mode = "confirming-close"
    /\ HasActiveSession(prevState)
    /\ state.mode = "normal"
    /\ state.sessions = prevState.sessions

\* C22: while the prefix is active, the chunk ESC [ A or A dispatches
\* SCROLL_UP with 5 lines and the chunk ESC [ B or B dispatches SCROLL_DOWN
\* with 5 lines; nothing is written to a PTY and the prefix is inactive
\* afterwards.
C22_PrefixScrollKeys ==
    (ev.kind = "stdin" /\ ev.prefix /\ prevState.mode = "normal")
    => /\ ev.chunk \in {<<ESC, "[", "A">>, <<"A">>}
          => (dispatched = <<ScrollUp(5)>> /\ ptyWrites = <<>> /\ ~prefixActive)
       /\ ev.chunk \in {<<ESC, "[", "B">>, <<"B">>}
          => (dispatched = <<ScrollDown(5)>> /\ ptyWrites = <<>> /\ ~prefixActive)

(***************************************************************************)
(* An interpreter of SGR sequences: 0 resets the style and every other     *)
(* parameter sets its attribute.  A colour is read as the emulator keeps   *)
(* it (getCellStyle of the cell it would store).                           *)
(***************************************************************************)
\* The number that starts at position i of s: [value, next].
RECURSIVE ReadNumber(_, _, _)
ReadNumber(s, i, acc) ==
    IF IsDigit(At(s, i)) THEN ReadNumber(s, i + 1, acc * 10 + DigitValue(s[i]))
    ELSE [value |-> acc, next |-> i]

\* The parameters of the SGR sequence whose first parameter starts at i:
\* [params, next], next being the position after the final m.
RECURSIVE ReadParams(_, _)
ReadParams(s, i) ==
    LET n == ReadNumber(s, i, 0)
    IN  IF At(s, n.next) = ";"
        THEN LET rest == ReadParams(s, n.next + 1)
             IN  [params |-> <<n.value>> \o rest.params, next |-> rest.next]
        ELSE [params |-> <<n.value>>, next |-> n.next + 1]

Palette(n) == Colour("palette", n)

RgbOf(p) == Colour("rgb", p[3] * 65536 + p[4] * 256 + p[5])

RECURSIVE ApplySgr(_, _)
ApplySgr(p, a) ==
    IF p = <<>> THEN a
    ELSE LET c == Head(p)
             drop(k) == SubSeq(p, k + 1, Len(p))
         IN  CASE c = 0 -> ApplySgr(Tail(p), Attrs(Plain, Plain, {}))
               [] c = 1 -> ApplySgr(Tail(p), [a EXCEPT !.flags = @ \cup {"bold"}])
               [] c = 2 -> ApplySgr(Tail(p), [a EXCEPT !.flags = @ \cup {"dim"}])
               [] c = 3 -> ApplySgr(Tail(p), [a EXCEPT !.flags = @ \cup {"italic"}])
               [] c = 4 -> ApplySgr(Tail(p), [a EXCEPT !.flags = @ \cup {"underline"}])
               [] c = 7 -> ApplySgr(Tail(p), [a EXCEPT !.flags = @ \cup {"inverse"}])
               [] c = 9 -> ApplySgr(Tail(p),
                                    [a EXCEPT !.flags = @ \cup {"strikethrough"}])
               [] c \in 30..37 -> ApplySgr(Tail(p), [a EXCEPT !.fg = Palette(c - 30)])
               [] c \in 90..97 -> ApplySgr(Tail(p), [a EXCEPT !.fg = Palette(c - 82)])
               [] c \in 40..47 -> ApplySgr(Tail(p), [a EXCEPT !.bg = Palette(c - 40)])
               [] c \in 100..107 -> ApplySgr(Tail(p), [a EXCEPT !.bg = Palette(c - 92)])
               [] c = 38 /\ Len(p) >= 3 /\ p[2] = 5 ->
                      ApplySgr(drop(3), [a EXCEPT !.fg = Palette(p[3])])
               [] c = 38 /\ Len(p) >= 5 /\ p[2] = 2 ->
                      ApplySgr(drop(5), [a EXCEPT !.fg = RgbOf(p)])
               [] c = 48 /\ Len(p) >= 3 /\ p[2] = 5 ->
                      ApplySgr(drop(3), [a EXCEPT !.bg = Palette(p[3])])
               [] c = 48 /\ Len(p) >= 5 /\ p[2] = 2 ->
                      ApplySgr(drop(5), [a EXCEPT !.bg = RgbOf(p)])
               [] OTHER -> ApplySgr(Tail(p), a)

\* The characters of s from position i on, each with the attributes it is
\* printed in and whether an SGR sequence stands right before it.
RECURSIVE Interpret(_, _, _, _)
Interpret(s, i, a, sgrBefore) ==
    IF i > Len(s) THEN <<>>
    ELSE IF HasAt(s, i, <<ESC, "[">>)
    THEN LET r == ReadParams(s, i + 2)
         IN  Interpret(s, r.next, ApplySgr(r.params, a), TRUE)
    ELSE <<[attrs |-> a, sgr |-> sgrBefore]>> \o Interpret(s, i + 1, a, FALSE)

\* The cells renderLine writes of the lines from y on: each with its style,
\* and whether it is the first of its line.
RECURSIVE Written(_)
Written(y) ==
    IF y > Len(buffer.lines) THEN <<>>
    ELSE LET cells == SelectSeq(buffer.lines[y], LAMBDA c : c.width # 0)
         IN  (IF frame.lines[y] = <<>> THEN <<>>
              ELSE [k \in 1..Len(cells) |->
                       [style |-> getCellStyle(cells[k], buffer.defaultColor),
                        first |-> k = 1,
                        changed |-> k > 1 /\ cells[k].attrs # cells[k - 1].attrs]])
             \o Written(y + 1)

\* C23: the lines renderBuffer returns for a buffer, read in order by an
\* interpreter of SGR (0 resets, every parameter sets its attribute), print
\* every cell written in the style of the buffer's cell; and a cell that
\* follows another one in its line has an SGR sequence right before it
\* exactly if its style differs from that of the cell before.
C23_SgrRoundTrip ==
    frame.done
    => LET read == Interpret(Join(frame.lines), 1, Attrs(Plain, Plain, {}), FALSE)
           cells == Written(1)
       IN  /\ Len(read) = Len(cells)
           /\ \A k \in 1..Len(cells) :
                 /\ getCellStyle(BufferCell(read[k].attrs, <<>>, 1), buffer.defaultColor)
                        = cells[k].style
                 /\ ~cells[k].first => (read[k].sgr <=> cells[k].changed)

\* C23's case: a line was rendered in which a plain blank follows a cell with
\* a flag and colours, and a second line follows it.
C23_Witness ==
    /\ frame.done
    /\ Len(buffer.lines) >= 2
    /\ buffer.cols >= 2
    /\ buffer.lines[1][1].width = 1
    /\ buffer.lines[1][1].attrs.flags # {}
    /\ buffer.lines[1][1].attrs.fg.kind = "rgb"
    /\ buffer.lines[1][2].width = 1
    /\ buffer.lines[1][2].attrs = Attrs(Plain, Plain, {})
    /\ frame.lines[2] # <<>>

\* C24 as stated: every action that changes the sessions list (a session
\* added or removed, or a session's record such as its exit code updated)
\* leaves the mode normal.
C24_NormalOnAnyListChange ==
    state.sessions # prevState.sessions => state.mode = "normal"

\* C24 amended: every action that changes the membership or the order of the
\* sessions list (a session added or removed) leaves the mode normal
\* (SESSION_EXITED, which changes only a session's exit code, keeps the mode).
C24_NormalOnMembershipChange ==
    IdList(state.sessions) # IdList(prevState.sessions) => state.mode = "normal"

\* C24's case: a session was removed while a dialog was shown.
C24_Witness ==
    /\ LastAction.type = "REMOVE_SESSION"
    /\ prevState.mode # "normal"
    /\ Len(state.sessions) < Len(prevState.sessions)
    /\ state.mode = "normal"

\* C25: SET_ACTIVE(id) sets the active id to id and scrollOffset to 0 if a
\* session of the list has the id; if none has it, the active id is left as
\* it was.
C25_SetActiveGuard ==
    LastAction.type = "SET_ACTIVE"
    => IF LastAction.sessionId \in Ids(prevState.sessions)
       THEN state.activeSessionId = LastAction.sessionId /\ state.scrollOffset = 0
       ELSE state.activeSessionId = prevState.activeSessionId

\* The action of the last step gave the subscribers nothing to see: a tab
\* step on an empty list, a jump out of range, an action the reducer does not
\* know, or a throw of the reducer.
Silent(a) ==
    \/ a.type \in {"NEXT_TAB", "PREV_TAB"} /\ prevState.sessions = <<>>
    \/ a.type = "JUMP_TO_TAB" /\ (a.index < 0 \/ a.index >= Len(prevState.sessions))
    \/ a.type = "UNKNOWN"
    \/ threw

\* C26: dispatch(a) hands the subscriber one "change" event, with the state
\* after the action, before it returns, exactly if the reducer returned a
\* new state object: NEXT_TAB and PREV_TAB on an empty list, a JUMP_TO_TAB
\* out of range and an unknown action notify no one and leave the state, and
\* every other action notifies once, even if the new state equals the old.
C26_ChangeNotification ==
    Len(dispatched) = 1
    => /\ emitted = Len(observed)
       /\ Silent(dispatched[1]) => (observed = <<>> /\ state = prevState)
       /\ ~Silent(dispatched[1]) => observed = <<state>>

\* C26's case: a SET_MODE to the mode the state already had notified the
\* subscriber once.
C26_Witness ==
    /\ LastAction.type = "SET_MODE"
    /\ state = prevState
    /\ observed = <<state>>
    /\ emitted = 1

\* The state after k dispatches of the action a.
RECURSIVE Repeat(_, _, _)
Repeat(st, a, k) == IF k = 0 THEN st ELSE Repeat(Apply(st, a), a, k - 1)

\* C27: in a state of n >= 1 distinct sessions whose active id is that of
\* the session at index i, NEXT_TAB makes the session at index (i+1) mod n
\* active and PREV_TAB the one at (i-1) mod n; the other of the two actions
\* then restores the active id, n NEXT_TABs in a row return to the tab they
\* started from, and the sessions list and the mode stay as they were.
C27_TabCycling ==
    (/\ LastAction.type \in {"NEXT_TAB", "PREV_TAB"}
     /\ prevState.sessions # <<>>
     /\ Distinct(prevState.sessions)
     /\ prevState.activeSessionId \in Ids(prevState.sessions))
    => LET n == Len(prevState.sessions)
           i == FindIndex(prevState.sessions, prevState.activeSessionId)
           step == IF LastAction.type = "NEXT_TAB" THEN 1 ELSE -1
           back == IF LastAction.type = "NEXT_TAB" THEN PrevTab ELSE NextTab
       IN  /\ state.activeSessionId = prevState.sessions[((i + step) % n) + 1].id
           /\ state.sessions = prevState.sessions
           /\ state.mode = prevState.mode
           /\ Apply(state, back).activeSessionId = prevState.activeSessionId
           /\ Repeat(prevState, NextTab, n).activeSessionId = prevState.activeSessionId
           /\ \A k \in 1..(n - 1) :
                 Repeat(prevState, NextTab, k).activeSessionId
                     # prevState.activeSessionId

\* C27's case: PREV_TAB on the first of three tabs made the third active.
C27_Witness ==
    /\ LastAction.type = "PREV_TAB"
    /\ Len(prevState.sessions) = 3
    /\ prevState.activeSessionId = prevState.sessions[1].id
    /\ state.activeSessionId = prevState.sessions[3].id
    /\ prevState.mode = "confirming-close"

\* C28: the prefix command w or W sets the mode to confirming-close only if
\* the active id is that of a session of the list, and in every reachable
\* state whose mode is confirming-close the active id is that of a session
\* of the list, whatever closes are pending and whatever PTYs exited.
C28_ConfirmNeedsActive ==
    /\ state.mode = "confirming-close" => HasActiveSession(state)
    /\ (/\ ev.kind = "stdin"
        /\ ev.prefix
        /\ ev.chunk \in {<<"w">>, <<"W">>}
        /\ prevState.mode = "normal"
        /\ state.mode = "confirming-close")
       => HasActiveSession(prevState)

\* C28's case: the close confirmation is shown for a session whose close is
\* already awaiting the removal of its checkout.
C28_Witness ==
    /\ state.mode = "confirming-close"
    /\ ev.kind = "stdin"
    /\ ev.chunk = <<"w">>
    /\ pendingClose = <<state.activeSessionId>>

\* C29: the viewport is repainted when the active session changes.  In Normal
\* mode the session that render recorded as rendered is the active session and
\* the viewport shows that session's emulator (the placeholder, or the cleared
\* screen of the start, when there is none), and pass-through bytes of a
\* session are written only onto a viewport painted from that session.
C29_RepaintOnActiveChange ==
    /\ state.mode = "normal" => lastRenderedSessionId = state.activeSessionId
    /\ (state.mode = "normal" /\ HasActiveSession(state))
           => rend.viewport = state.activeSessionId
    /\ (state.mode = "normal" /\ ~HasActiveSession(state))
           => rend.viewport \in {"placeholder", "none"}
    /\ (state.mode = "normal" /\ ~HasActiveSession(state)
          /\ prevState.activeSessionId # state.activeSessionId)
           => rend.viewport = "placeholder"
    /\ (ev.kind = "pty-data" /\ passed # <<>>) => rend.viewport = ev.id

\* The active session changed in Normal mode and the PTY of the new active
\* session then passed bytes through.
C29_Witness ==
    /\ state.mode = "normal"
    /\ ev.kind = "pty-data"
    /\ passed # <<>>
    /\ ev.id = state.activeSessionId
    /\ rend.viewport = ev.id
    /\ ev.id # "s1"
    /\ Len(state.sessions) >= 2

\* The scroll-region sequences of s: the last one, <<>> when there is none.
RECURSIVE LastRegionFrom(_, _, _)
LastRegionFrom(s, i, last) ==
    IF i > Len(s) THEN last
    ELSE LET n == MatchDecstbm(s, i)
         IN  IF n > 0 THEN LastRegionFrom(s, i + n, SubSeq(s, i, i + n - 1))
             ELSE LastRegionFrom(s, i + 1, last)

LastRegion(s) == LastRegionFrom(s, 1, <<>>)

\* C30: after initialize and every operation of the renderer other than
\* cleanup, the last scroll-region sequence written to stdout sets the region
\* [1, viewportRows] of the current geometry, and what drawChrome writes
\* starts with SAVE_CURSOR and ends with RESTORE_CURSOR.
C30_ScrollRegionReinstalled ==
    /\ LastRegion(rend.tty) = setScrollRegion(1, rend.viewportRows)
    /\ rend.chrome.drawn
       => LET out == ChromeWrite(rend)
          IN  /\ SubSeq(out, 1, 2) = SAVE_CURSOR
              /\ SubSeq(out, Len(out) - 1, Len(out)) = RESTORE_CURSOR

(***************************************************************************)
(* Properties of the geometry, the timers and the lifetimes.               *)
(***************************************************************************)
\* The chrome rows are the rows below the scroll region, on the screen.
ChromeBelowRegion ==
    /\ rend.viewportRows >= 1
    /\ rend.chrome.drawn
       => /\ ChromeRows(rend) = [i \in 1..3 |-> rend.viewportRows + i]
          /\ ChromeRows(rend)[3] = rend.totalRows
          /\ \A i \in 1..3 : ChromeRows(rend)[i] >= 1
          /\ \A i \in 1..3 : ChromeRows(rend)[i] \notin 1..rend.viewportRows

\* C31 as stated: for every height total_rows >= 1, after initialize or
\* handleResize inner_rows >= 1 and the three chrome rows drawChrome writes
\* are exactly the rows inner_rows+1 .. total_rows, all >= 1 and disjoint
\* from the scroll region [1, inner_rows].
C31_GeometryAnyHeight == rend.totalRows >= 1 => ChromeBelowRegion

\* C31: inner_rows >= 1 for every height total_rows >= 1, and for every
\* height above the three chrome rows the rows drawChrome writes are exactly
\* inner_rows+1 .. total_rows, all >= 1 and disjoint from the scroll region.
C31_Geometry ==
    /\ rend.viewportRows >= 1
    /\ rend.totalRows > CHROME_ROWS => ChromeBelowRegion

\* The terminal was resized to a height above the chrome rows and the chrome
\* was drawn.
C31_Witness ==
    /\ ev.kind = "resize"
    /\ rend.totalRows > CHROME_ROWS
    /\ rend.chrome.drawn
    /\ rend.viewportRows = rend.totalRows - CHROME_ROWS

\* The steps that are callbacks of timers: the flush of a batch, the prefix
\* timeout and the silence timeout.
TimerCallbacks == {"pty-flush", "prefix-timeout", "silence"}

C33_DebouncedBatch ==
    /\ \A id \in DOMAIN procs :
          /\ procs[id].timers <= 1
          /\ procs[id].pendingChunks # <<>> <=> procs[id].timers = 1
          /\ procs[id].flushTimer <=> procs[id].timers = 1
          /\ terms[id].written \o Join(procs[id].pendingChunks) = procs[id].delivered
          /\ (ev.kind = "pty-flush" /\ ev.id = id)
                => /\ procs[id].pendingChunks = <<>>
                   /\ terms[id].written = procs[id].delivered
    /\ (ev.kind = "pty-flush" /\ ev.id = state.activeSessionId /\ state.mode = "normal")
          => /\ rend.chrome.drawn
             /\ rend.chrome.state = state
             /\ ~rend.chromeNeedsRedraw

\* A flush wrote a burst of two chunks of the active session in one batch
\* while two chunks of another session await their flush.
C33_Witness ==
    \E id \in DOMAIN procs, other \in DOMAIN procs :
        /\ id # other
        /\ ev.kind = "pty-flush"
        /\ ev.id = id
        /\ id = state.activeSessionId
        /\ terms[id].written = <<"a", "b">>
        /\ procs[other].timers = 1
        /\ Len(procs[other].pendingChunks) = 2

\* C34: the sessions with a status entry are the sessions of the list, in the
\* application and in the renderer's copy; a session that entered the list in
\* the last step has a fresh idle entry with no silence timer; and a silence
\* timer fires only for a session of the list.
C34_StatusFollowsSessions ==
    /\ DOMAIN statuses = Ids(state.sessions)
    /\ DOMAIN rend.sessionStatuses = Ids(state.sessions)
    /\ \A id \in Ids(state.sessions) \ Ids(prevState.sessions) : statuses[id] = NewEntry
    /\ ev.kind = "silence" => ev.id \in Ids(prevState.sessions)

\* A session was removed from the list while another session, created in this
\* run, keeps an armed silence timer.
C34_Witness ==
    /\ ev.kind = "close-done"
    /\ ev.id \in Ids(prevState.sessions)
    /\ ev.id \notin DOMAIN statuses
    /\ \E id \in DOMAIN statuses : id # "s1" /\ statuses[id].timer > 0

\* C35: every session of the list has an emulator, and it was not disposed.
C35_EmulatorLifetime ==
    \A id \in Ids(state.sessions) :
        /\ id \in DOMAIN terms
        /\ terms[id].disposed = 0

\* C36: the exit of a PTY (SESSION_EXITED) sets the exit code of the session
\* of that id and nothing else: the list keeps its members and their order,
\* the other sessions, the active id, the mode and the scroll offset stay,
\* and for an id that is not in the list the state stays equal; a session
\* leaves the list only in the step in which closeSession dispatches
\* REMOVE_SESSION for it.
C36_ExitRetainsSession ==
    /\ (ev.kind = "pty-exit" /\ LastAction.type = "SESSION_EXITED")
       => /\ LastAction.sessionId = ev.id
          /\ Len(state.sessions) = Len(prevState.sessions)
          /\ \A i \in 1..Len(prevState.sessions) :
                state.sessions[i] =
                    IF prevState.sessions[i].id = ev.id
                    THEN [prevState.sessions[i] EXCEPT !.exitCode = LastAction.exitCode]
                    ELSE prevState.sessions[i]
          /\ state.activeSessionId = prevState.activeSessionId
          /\ state.mode = prevState.mode
          /\ state.scrollOffset = prevState.scrollOffset
          /\ ev.id \notin Ids(prevState.sessions) => state = prevState
    /\ ev.kind = "pty-exit" => LastAction.type = "SESSION_EXITED"
    /\ Ids(prevState.sessions) \ Ids(state.sessions) # {}
       => /\ ev.kind \in {"close-done", "close-kept"}
          /\ LastAction.type = "REMOVE_SESSION"
          /\ Ids(prevState.sessions) \ Ids(state.sessions) = {ev.id}

\* The PTY of one of two sessions exited with a code while a dialog was
\* shown: the session stays in the list with the code.
C36_Witness ==
    /\ ev.kind = "pty-exit"
    /\ Len(state.sessions) = 2
    /\ state.mode # "normal"
    /\ \E i \in 1..2 :
          /\ state.sessions[i].id = ev.id
          /\ state.sessions[i].exitCode # NoExit
          /\ prevState.sessions[i].exitCode = NoExit

\* The PTY of a session that was closed and removed exited afterwards.
ExitAfterRemoval ==
    /\ ev.kind = "pty-exit"
    /\ ev.id \notin Ids(prevState.sessions)
    /\ state = prevState

\* C37: the ids of the sessions of the list are pairwise distinct; they are
\* ids the counter has issued, and a session that is created gets the id of
\* the counter's new value, which no session added earlier has.
C37_UniqueIds ==
    /\ Distinct(state.sessions)
    /\ \A id \in Ids(state.sessions) : \E k \in 1..sessionCounter : id = IdOf(k)
    /\ ev.kind = "create-done"
       => /\ ev.id = IdOf(sessionCounter)
          /\ ev.id \notin Ids(prevState.sessions)
          /\ \A k \in 1..(sessionCounter - 1) : IdOf(k) # ev.id

\* A session was created after an earlier one was closed and removed: the
\* list is shorter than the counter.
C37_Witness ==
    /\ ev.kind = "create-done"
    /\ sessionCounter = 2
    /\ IdList(state.sessions) = <<IdOf(2)>>

\* C38: closeSession runs at most once for a session: its PTY is killed at
\* most once and its emulator disposed at most once, no two pending closes
\* are for the same session, every pending close is for a session of the
\* list, and REMOVE_SESSION is dispatched for a session of the list.
C38_CloseOnce ==
    /\ \A id \in DOMAIN procs : procs[id].kills <= 1
    /\ \A id \in DOMAIN terms : terms[id].disposed <= 1
    /\ \A i, j \in 1..Len(pendingClose) : pendingClose[i] = pendingClose[j] => i = j
    /\ \A i \in 1..Len(pendingClose) : pendingClose[i] \in Ids(state.sessions)
    /\ LastAction.type = "REMOVE_SESSION"
       => LastAction.sessionId \in Ids(prevState.sessions)

\* C39: when the viewport is repainted for a session (the active session
\* changed, or a dialog was left, and the mode is normal), no chunk of that
\* session awaits the flush: all that its PTY delivered was written to its
\* emulator.
C39_NoOutputLost ==
    (/\ state.mode = "normal"
     /\ HasActiveSession(state)
     /\ \/ state.activeSessionId # prevState.activeSessionId
        \/ prevState.mode # "normal"
     /\ rend.viewport = state.activeSessionId)
    => /\ procs[state.activeSessionId].pendingChunks = <<>>
       /\ terms[state.activeSessionId].written = procs[state.activeSessionId].delivered

\* C40: after every handler (every render that a change of the store or a
\* resize of the terminal triggers included) the renderer's isModalActive
\* flag is TRUE exactly when the mode of the store is not normal.
C40_ModalFlagFollowsMode == rend.isModalActive <=> state.mode # "normal"

\* A session was added or removed while a dialog was displayed: the store
\* reset the mode and the render that followed left the modal.
C40_Witness ==
    /\ ev.kind = "create-done"
    /\ prevState.mode # "normal"
    /\ state.mode = "normal"
    /\ ~rend.isModalActive

\* A session was removed while the dialog of a new session was displayed.
RemovedUnderDialog ==
    /\ LastAction.type = "REMOVE_SESSION"
    /\ prevState.mode = "creating-session"
    /\ ~rend.isModalActive

\* The terminal was resized while a dialog was displayed.
ResizedUnderDialog == ev.kind = "resize" /\ rend.isModalActive

====
